---- MODULE Spec2Model ----
(***************************************************************************)
(* Insurance chat: the session hook useInsuranceChat (transcript, loading  *)
(* and error flags, suggestions, local-store persistence), the service     *)
(* InsuranceService it drives (categorizeQuestion, extractContextFromQuery,*)
(* processQuery with its fallback to the ResponseGenerator) and the        *)
(* knowledge base the service reads.                                       *)
(*                                                                         *)
(* Texts are strings; toLowerCase, includes and the regular expressions    *)
(* are computed character by character as the JavaScript does.             *)
(***************************************************************************)
EXTENDS Integers, Sequences, FiniteSets, TLC

(***************************************************************************)
(* Strings                                                                 *)
(***************************************************************************)

UpperCaseLetters == "ABCDEFGHIJKLMNOPQRSTUVWXYZ"

LowerCaseLetters == "abcdefghijklmnopqrstuvwxyz"

\* F applied to the value of v, with v computed once (a definition of LET
\* is computed anew wherever it is used).
With(v, F(_)) == CHOOSE r \in {F(x) : x \in {v}} : TRUE

\* The character of s at position i (1-based), as a string of length 1.
charAt(s, i) == SubSeq(s, i, i)

\* String.prototype.toLowerCase on one character.
toLowerCaseChar(c) ==
    With({i \in 1..Len(UpperCaseLetters) : charAt(UpperCaseLetters, i) = c},
         LAMBDA upper : IF upper = {} THEN c
                        ELSE charAt(LowerCaseLetters, CHOOSE i \in upper : TRUE))

\* String.prototype.toLowerCase: character by character (the two halves of s
\* are converted separately and joined).
RECURSIVE toLowerCase(_)
toLowerCase(s) ==
    With(s, LAMBDA t :
        IF t = "" THEN ""
        ELSE IF Len(t) = 1 THEN toLowerCaseChar(t)
        ELSE toLowerCase(SubSeq(t, 1, Len(t) \div 2))
             \o toLowerCase(SubSeq(t, (Len(t) \div 2) + 1, Len(t))))

\* String.prototype.includes: sub occurs in s as a contiguous substring.
includes(s, sub) ==
    \E t \in {s}, u \in {sub} :
        \E i \in 0..(Len(t) - Len(u)) : SubSeq(t, i + 1, i + Len(u)) = u

(***************************************************************************)
(* Optional values: undefined / null is <<>>, a present value v is <<v>>.  *)
(***************************************************************************)

None == <<>>

Some(v) == <<v>>

(***************************************************************************)
(* State                                                                   *)
(***************************************************************************)

VARIABLES
    \* useInsuranceChat: the options and configuration a session is built with
    mounted,          \* a session (hook instance) exists
    options,          \* [persistMessages, initialMessages, stableInitial, onError]
    config,           \* [useAI]: the InsuranceServiceConfig field processQuery reads
    \* useInsuranceChat: React state
    messages,         \* the transcript
    isLoading,
    error,            \* None (null) or Some(Error)
    suggestions,
    modelOverride,    \* None (undefined) or Some(model name)
    \* useInsuranceChat: refs
    lastMessageRef,   \* '' or the text of the last sendMessage
    contextRef,       \* the accumulated extracted context
    \* React bookkeeping
    messagesIsInitial,\* the messages state is the array the last render had as initialMessages
    effectPending,    \* a render changed messages and its persistence effect has not run
    calls,            \* the sendMessage invocations suspended at an await
    \* environment
    store,            \* localStorage: the value under LOCAL_STORAGE_KEY, None when absent
    clock,            \* the millisecond new Date() reads next
    \* observations
    sends,            \* turns started so far (sendMessage and retryLastMessage)
    mounts,           \* sessions constructed so far
    onErrorCalls,     \* the errors onError was called with, in order
    storeOps,         \* the localStorage methods called so far
    storeErrors,      \* exceptions caught so far by the three local-store try blocks
    initialStore,     \* the store as it was before the first session
    persisted,        \* None or Some(the transcript whose serialization the store holds)
    turns,            \* [base, failed]: the transcript length at construction or at
                      \* the last reset, and whether a turn has failed since
    last,             \* the last operation of the session that completed
    \* a service function applied on its own
    arg,              \* the text under construction: [text, kinds, fragments]
    ret,              \* None or Some(the last application and its result)
    \* the InsuranceChat component around the session
    chat,             \* [stage, content, response, suggestions]
    \* a CacheService with memory storage
    cache             \* [store, now, defaultTTL, pending, last] and what was
                      \* asked of it: [written, invocations, started, ticks]

hookVars == <<mounted, options, config, messages, isLoading, error, suggestions,
              modelOverride, lastMessageRef, contextRef, messagesIsInitial,
              effectPending, calls, store, clock, sends, mounts, onErrorCalls,
              storeOps, storeErrors, initialStore, persisted, turns, last>>

pureVars == <<arg, ret>>

vars == <<hookVars, pureVars, chat, cache>>

(***************************************************************************)
(* InsuranceService.categorizeQuestion                                     *)
(***************************************************************************)

HealthKeywords ==
    <<"health", "medical", "exam", "pre-existing", "condition", "diabetes", "smoker">>

ClaimsKeywords ==
    <<"claim", "file", "beneficiary payout", "death certificate", "process claim">>

PolicyKeywords ==
    <<"policy", "coverage", "premium", "cash value", "term", "whole life",
      "universal", "variable", "permanent">>

\* lowerQuestion.includes(k1) || lowerQuestion.includes(k2) || ...
includesAny(s, keywords) ==
    \E t \in {s} : \E i \in DOMAIN keywords : includes(t, keywords[i])

\* categorizeQuestion with the claims keywords tested before the health
\* keywords.
categorizeQuestion_claimsFirst(question) ==
    With(toLowerCase(question), LAMBDA lowerQuestion :
        IF includesAny(lowerQuestion, ClaimsKeywords) THEN "claims"
        ELSE IF includesAny(lowerQuestion, HealthKeywords) THEN "health"
        ELSE IF includesAny(lowerQuestion, PolicyKeywords) THEN "policy"
        ELSE "basic")

\* The catch branch (return 'basic') needs toLowerCase or includes to throw,
\* which they do not on a string.
categorizeQuestion(question) ==
    With(toLowerCase(question), LAMBDA lowerQuestion :
        IF includesAny(lowerQuestion, HealthKeywords) THEN "health"
        ELSE IF includesAny(lowerQuestion, ClaimsKeywords) THEN "claims"
        ELSE IF includesAny(lowerQuestion, PolicyKeywords) THEN "policy"
        ELSE "basic")


(***************************************************************************)
(* InsuranceService.extractContextFromQuery                                *)
(***************************************************************************)

Digits == "0123456789"

IsDigit(c) == \E d \in {c} : \E i \in 1..Len(Digits) : charAt(Digits, i) = d

\* [0-9,]
IsAmountChar(c) == IsDigit(c) \/ c = ","

\* \s
IsSpace(c) == c \in {" ", "\t", "\n", "\r"}

\* \w
IsWordChar(c) ==
    \E d \in {c} :
        \/ IsDigit(d)
        \/ d = "_"
        \/ \E i \in 1..Len(UpperCaseLetters) :
              d = charAt(UpperCaseLetters, i) \/ d = charAt(LowerCaseLetters, i)

\* The literal lit occurs in s starting at position i.
matchesAt(s, i, lit) ==
    \E t \in {s}, p \in {i} :
        /\ p >= 1
        /\ p + Len(lit) - 1 <= Len(t)
        /\ SubSeq(t, p, p + Len(lit) - 1) = lit

\* The end of the longest run of characters satisfying P that starts at
\* position i of s; i - 1 when the run is empty (a greedy P* from i).
runEnd(s, i, P(_)) ==
    With(i, LAMBDA from :
        CHOOSE j \in (from - 1)..Len(s) :
            /\ \A k \in from..j : P(charAt(s, k))
            /\ j = Len(s) \/ ~P(charAt(s, j + 1)))

\* \b at the gap before position i of s (i in 1..Len(s)+1).
wordBoundary(s, i) ==
    \E p \in {i} :
        LET before == p >= 2 /\ p - 1 <= Len(s) /\ IsWordChar(charAt(s, p - 1))
            after  == p >= 1 /\ p <= Len(s) /\ IsWordChar(charAt(s, p))
        IN  before # after

\* The value of a decimal digit character.
digitValue(c) == (CHOOSE i \in 1..Len(Digits) : charAt(Digits, i) = c) - 1

\* The number a non-empty string of decimal digits denotes.
RECURSIVE digitsValue(_)
digitsValue(s) ==
    With(s, LAMBDA t :
        IF t = "" THEN 0
        ELSE 10 * digitsValue(SubSeq(t, 1, Len(t) - 1)) + digitValue(charAt(t, Len(t))))

\* The least position from i on at which lit occurs in s; 0 when there
\* is none.
indexOfFrom(s, lit, i) ==
    With({k \in i..Len(s) : matchesAt(s, k, lit)}, LAMBDA hits :
        IF hits = {} THEN 0 ELSE CHOOSE k \in hits : \A j \in hits : k <= j)

\* s.replace(new RegExp(pat, 'g'), rep) for a pattern pat without
\* metacharacters: every occurrence, left to right, not overlapping.
RECURSIVE replaceAll(_, _, _)
replaceAll(s, pat, rep) ==
    With(s, LAMBDA t :
        With(IF pat = "" THEN 0 ELSE indexOfFrom(t, pat, 1), LAMBDA k :
            IF k = 0 THEN t
            ELSE SubSeq(t, 1, k - 1) \o rep
                 \o replaceAll(SubSeq(t, k + Len(pat), Len(t)), pat, rep)))

\* s.replace(/,/g, '')
removeCommas(s) == replaceAll(s, ",", "")

\* parseFloat on a string of digits: None is NaN (the empty string).
parseFloat(s) == With(s, LAMBDA t : IF t = "" THEN None ELSE Some(digitsValue(t)))

\* One alternative of the coverage pattern tried at position i:
\*   "$" [0-9,]+ (suffix)   for the first and the second alternative,
\*   [0-9,]+ " " (thousand|million) " dollars"   for the third.
\* [0-9,]+ is greedy; no shorter run can match, since every suffix starts
\* with a character outside [0-9,].
coverageAlt(s, i, n) ==
    LET from == IF n = 3 THEN i ELSE i + 1
        tails == IF n = 1 THEN {"k", "K", "thousand"}
                 ELSE IF n = 2 THEN {"m", "M", "million"}
                 ELSE {" thousand dollars", " million dollars"}
    IN  IF n = 3 \/ matchesAt(s, i, "$")
        THEN With(runEnd(s, from, IsAmountChar), LAMBDA e :
                IF e >= from /\ \E t \in tails : matchesAt(s, e + 1, t)
                THEN Some(SubSeq(s, from, e))
                ELSE None)
        ELSE None

\* query.match(/\$([0-9,]+)(?:k|K|thousand)|\$([0-9,]+)(?:m|M|million)
\*             |([0-9,]+) (?:thousand|million) dollars/):
\* None when there is no match, else Some([group |-> 1, 2 or 3, text |-> the
\* captured digits]) for the leftmost match, alternatives tried in order.
coverageMatch(query) ==
    With({i \in 1..Len(query) : \E n \in 1..3 : coverageAlt(query, i, n) # None},
         LAMBDA hits :
        IF hits = {} THEN None
        ELSE With(CHOOSE h \in hits : \A g \in hits : h <= g, LAMBDA i :
                With(CHOOSE m \in 1..3 :
                        /\ coverageAlt(query, i, m) # None
                        /\ \A l \in 1..(m - 1) : coverageAlt(query, i, l) = None,
                     LAMBDA n :
                        Some([group |-> n, text |-> coverageAlt(query, i, n)[1]]))))

\* The amount computed from a match; 0 when parseFloat yields NaN, which the
\* code's test amount > 0 rejects exactly as it rejects 0.
coverageAmountOf(query, m) ==
    With(parseFloat(removeCommas(m.text)), LAMBDA value :
        IF value = None THEN 0
        ELSE IF m.group = 1 THEN value[1] * 1000
        ELSE IF m.group = 2 THEN value[1] * 1000000
        ELSE IF includes(query, "million") THEN value[1] * 1000000
        ELSE value[1] * 1000)

\* (?:years?\s*old|year-old|yo)\b tried at position p of s.
ageUnitAt(s, p) ==
    \E u \in {p} :
        \/ /\ matchesAt(s, u, "year")
           /\ \E q \in {IF matchesAt(s, u + 4, "s") THEN u + 5 ELSE u + 4} :
                \E r \in {runEnd(s, q, IsSpace) + 1} :
                    matchesAt(s, r, "old") /\ wordBoundary(s, r + 3)
        \/ matchesAt(s, u, "year-old") /\ wordBoundary(s, u + 8)
        \/ matchesAt(s, u, "yo") /\ wordBoundary(s, u + 2)

\* \b(\d{1,2})\s*(?:...)\b tried at position i with d digits.
ageAt(s, i, d) ==
    /\ i + d - 1 <= Len(s)
    /\ \A k \in i..(i + d - 1) : IsDigit(charAt(s, k))
    /\ wordBoundary(s, i)
    /\ ageUnitAt(s, runEnd(s, i + d, IsSpace) + 1)

\* query.match(/\b(\d{1,2})\s*(?:years?\s*old|year-old|yo)\b/): None or
\* Some(the captured digits) of the leftmost match, two digits tried first.
ageMatch(query) ==
    With({i \in 1..Len(query) : ageAt(query, i, 2) \/ ageAt(query, i, 1)},
         LAMBDA hits :
        IF hits = {} THEN None
        ELSE With(CHOOSE h \in hits : \A g \in hits : h <= g, LAMBDA i :
                With(IF ageAt(query, i, 2) THEN 2 ELSE 1, LAMBDA d :
                    Some(SubSeq(query, i, i + d - 1)))))

\* { ...a, ...b }
spread(a, b) ==
    With(a, LAMBDA x : With(b, LAMBDA y :
        [k \in (DOMAIN x) \cup (DOMAIN y) |-> IF k \in DOMAIN y THEN y[k] ELSE x[k]]))

extractContextFromQuery(query, category) ==
    With(toLowerCase(query), LAMBDA lower :
        LET policyType ==
                IF includes(lower, "term life") THEN [policyType |-> "term"]
                ELSE IF includes(lower, "whole life") THEN [policyType |-> "whole"]
                ELSE IF includes(lower, "universal life") THEN [policyType |-> "universal"]
                ELSE IF includes(lower, "variable life") THEN [policyType |-> "variable"]
                ELSE <<>>
            coverage ==
                With(coverageMatch(query), LAMBDA cm :
                    IF cm = None THEN <<>>
                    ELSE With(coverageAmountOf(query, cm[1]), LAMBDA amount :
                            IF amount > 0 THEN [coverageAmount |-> amount] ELSE <<>>))
            age ==
                With(ageMatch(query), LAMBDA am :
                    IF am = None THEN <<>>
                    ELSE With(digitsValue(am[1]), LAMBDA years :
                            IF years > 0 /\ years < 120 THEN [age |-> years] ELSE <<>>))
            health ==
                IF \/ includes(lower, "diabetes")
                   \/ includes(lower, "high blood pressure")
                   \/ includes(lower, "heart condition")
                THEN [healthStatus |-> "pre-existing condition"]
                ELSE IF includes(lower, "smoker") \/ includes(lower, "smoke cigarettes")
                THEN [healthStatus |-> "smoker"]
                ELSE IF includes(lower, "excellent health") \/ includes(lower, "good health")
                THEN [healthStatus |-> "good health"]
                ELSE <<>>
        IN  spread(spread(spread(spread([category |-> category], policyType),
                                 coverage), age), health))


(***************************************************************************)
(* KnowledgeBase and the policy tables of utils/knowledge-base             *)
(***************************************************************************)

entries == <<
    [term |-> "term life insurance",
     definition |-> "Insurance that provides coverage for a specific period (term), typically 10, 20, or 30 years, with level premiums and no cash value component.",
     category |-> "basic",
     relatedTerms |-> <<"whole life insurance", "premium", "death benefit">>],
    [term |-> "whole life insurance",
     definition |-> "Permanent life insurance that provides coverage for your entire life, includes a cash value component, and typically has fixed premiums.",
     category |-> "basic",
     relatedTerms |-> <<"term life insurance", "cash value", "permanent insurance">>],
    [term |-> "universal life insurance",
     definition |-> "A type of permanent life insurance with flexible premiums and death benefits, where the cash value earns interest based on current market rates.",
     category |-> "basic",
     relatedTerms |-> <<"variable life insurance", "whole life insurance", "cash value">>],
    [term |-> "medical underwriting",
     definition |-> "The process insurers use to evaluate your health status, medical history, and other factors to determine risk and set premium rates.",
     category |-> "health",
     relatedTerms |-> <<"medical exam", "no-exam insurance", "risk classification">>],
    [term |-> "pre-existing condition",
     definition |-> "A health condition that existed before applying for insurance, which may affect eligibility, premium rates, or coverage limitations.",
     category |-> "health",
     relatedTerms |-> <<"exclusions", "medical underwriting", "guaranteed issue">>],
    [term |-> "premium",
     definition |-> "The amount paid to the insurance company to maintain coverage, which can be paid monthly, quarterly, semi-annually, or annually.",
     category |-> "policy",
     relatedTerms |-> <<"policy fee", "rate class", "payment mode">>],
    [term |-> "death benefit",
     definition |-> "The amount of money paid to beneficiaries upon the insured person's death, which is generally income tax-free.",
     category |-> "policy",
     relatedTerms |-> <<"beneficiary", "face value", "payout">>],
    [term |-> "claim process",
     definition |-> "The procedure beneficiaries follow to receive the death benefit, which typically involves submitting a death certificate and claim form.",
     category |-> "claims",
     relatedTerms |-> <<"beneficiary", "death benefit", "contestability period">> ] >>

\* Array.prototype.find, and filter(...)[0]: <<>> when no index in 1..n
\* satisfies P, else <<the least one>>.
firstIndex(n, P(_)) ==
    With({i \in 1..n : P(i)}, LAMBDA hits :
        IF hits = {} THEN <<>> ELSE <<CHOOSE i \in hits : \A j \in hits : i <= j>>)

findRelevantInformation(topic) ==
    With(toLowerCase(topic), LAMBDA lowerTopic :
        LET exact(i)   == toLowerCase(entries[i].term) = lowerTopic
            partial(i) == \/ includes(lowerTopic, toLowerCase(entries[i].term))
                          \/ includes(toLowerCase(entries[i].term), lowerTopic)
        IN  With(firstIndex(Len(entries), exact), LAMBDA exactMatches :
                IF exactMatches # <<>> THEN entries[exactMatches[1]].definition
                ELSE With(firstIndex(Len(entries), partial), LAMBDA partialMatches :
                        IF partialMatches # <<>>
                        THEN entries[partialMatches[1]].definition
                        ELSE "I don't have specific information about \"" \o topic
                             \o "\" in my knowledge base. Would you like to know about term life insurance, whole life insurance, or another insurance topic?")))

\* Array.prototype.slice(0, n)
take(seq, n) == With(seq, LAMBDA t : SubSeq(t, 1, IF Len(t) < n THEN Len(t) ELSE n))

getRelatedTopics(context) ==
    With(toLowerCase(context), LAMBDA lowerContext :
        LET related(i) == includes(lowerContext, toLowerCase(entries[i].term))
        IN  With(firstIndex(Len(entries), related), LAMBDA relatedEntries :
                IF relatedEntries # <<>>
                THEN take(entries[relatedEntries[1]].relatedTerms, 3)
                ELSE <<>>))

getSuggestedQuestions(context) ==
    With(toLowerCase(context), LAMBDA lowerContext :
        LET related(i) == includes(lowerContext, toLowerCase(entries[i].term))
            question(term) ==
                IF \E i \in DOMAIN entries :
                        toLowerCase(entries[i].term) = toLowerCase(term)
                THEN "What is " \o term \o "?"
                ELSE "Can you tell me about " \o term \o "?"
        IN  With(firstIndex(Len(entries), related), LAMBDA relatedEntries :
                IF relatedEntries # <<>>
                THEN LET relatedTerms == entries[relatedEntries[1]].relatedTerms
                     IN  take([i \in DOMAIN relatedTerms |-> question(relatedTerms[i])], 3)
                ELSE <<"What's the difference between term and whole life insurance?",
                       "How much coverage do I need?",
                       "How do I file a claim?">>))

policyTypes == <<
    [name |-> "Term Life Insurance",
     description |-> "Coverage for a specific period, typically 10-30 years",
     features |-> <<"Lower premiums", "Fixed death benefit",
                    "No cash value component", "Convertible to permanent insurance">>,
     bestFor |-> <<"Temporary coverage needs", "Budget-conscious individuals",
                   "Young families", "Mortgage protection">>],
    [name |-> "Whole Life Insurance",
     description |-> "Permanent coverage that lasts your entire life",
     features |-> <<"Guaranteed death benefit", "Builds cash value",
                    "Fixed premiums", "Dividend potential">>,
     bestFor |-> <<"Lifetime coverage needs", "Estate planning",
                   "Business succession", "Long-term savings goals">>] >>

\* None (undefined) or Some(policy)
findPolicyType(name) ==
    With(toLowerCase(name), LAMBDA lowerName :
        LET hit(i) == toLowerCase(policyTypes[i].name) = lowerName
        IN  With(firstIndex(Len(policyTypes), hit), LAMBDA hits :
                IF hits = <<>> THEN None ELSE Some(policyTypes[hits[1]])))

commonQuestions ==
    [coverage |-> <<"How much coverage do I need?",
                    "What factors determine my coverage amount?",
                    "Can I change my coverage amount later?">>,
     healthRelated |-> <<"Do I need a medical exam?",
                         "How do pre-existing conditions affect my policy?",
                         "What health factors impact my premium?">>,
     claims |-> <<"How do I file a claim?",
                  "What documents are needed for a claim?",
                  "How long does claim processing take?">>]


(***************************************************************************)
(* More of String, Array and Intl                                          *)
(***************************************************************************)

\* s.replace(/\b(a1|a2)\b/g, rep) scanning s from position i: alts are the
\* alternatives in order.
RECURSIVE replaceWordsFrom(_, _, _, _)
replaceWordsFrom(s, i, alts, rep) ==
    LET hitAt(p, k) == /\ matchesAt(s, p, alts[k])
                       /\ wordBoundary(s, p)
                       /\ wordBoundary(s, p + Len(alts[k]))
    IN  With({p \in i..Len(s) : \E k \in DOMAIN alts : hitAt(p, k)}, LAMBDA hits :
            IF hits = {} THEN SubSeq(s, i, Len(s))
            ELSE With(CHOOSE h \in hits : \A g \in hits : h <= g, LAMBDA p :
                    With(CHOOSE a \in DOMAIN alts :
                            hitAt(p, a) /\ \A b \in 1..(a - 1) : ~hitAt(p, b),
                         LAMBDA k :
                            SubSeq(s, i, p - 1) \o rep
                            \o replaceWordsFrom(s, p + Len(alts[k]), alts, rep))))

\* String(n) for a natural number n.
RECURSIVE numberToString(_)
numberToString(n) ==
    With(n, LAMBDA m :
        IF m < 10 THEN charAt(Digits, m + 1)
        ELSE numberToString(m \div 10) \o charAt(Digits, (m % 10) + 1))

\* Digits grouped in threes from the right, separated by commas.
RECURSIVE groupThousands(_)
groupThousands(d) ==
    With(d, LAMBDA t :
        IF Len(t) <= 3 THEN t
        ELSE groupThousands(SubSeq(t, 1, Len(t) - 3)) \o ","
             \o SubSeq(t, Len(t) - 2, Len(t)))

\* new Intl.NumberFormat('en-US', {style: 'currency', currency: 'USD',
\* maximumFractionDigits: 0}).format(amount) for a natural number.
formatUSD(amount) == "$" \o groupThousands(numberToString(amount))

\* Array.prototype.join(sep)
RECURSIVE join(_, _)
join(seq, sep) ==
    With(seq, LAMBDA t :
        IF t = <<>> THEN ""
        ELSE IF Len(t) = 1 THEN t[1]
        ELSE t[1] \o sep \o join(Tail(t), sep))

\* Array.prototype.includes
arrayIncludes(seq, x) == \E i \in DOMAIN seq : seq[i] = x

\* [...a] followed by every element of b not yet in the result, in order.
RECURSIVE pushMissing(_, _)
pushMissing(a, b) ==
    With(a, LAMBDA x : With(b, LAMBDA y :
        IF y = <<>> THEN x
        ELSE pushMissing(IF arrayIncludes(x, Head(y)) THEN x ELSE Append(x, Head(y)),
                         Tail(y))))

\* Array.from(new Set(seq)): the first occurrence of every element, in order.
unique(seq) == pushMissing(<<>>, seq)

(***************************************************************************)
(* ResponseGenerator                                                       *)
(***************************************************************************)

\* analyzeIntent answering with the term the query names instead of a label.
analyzeIntent_namedTerm(query) ==
    With(toLowerCase(query), LAMBDA lowerQuery :
        IF includesAny(lowerQuery,
                       <<"term life", "whole life", "universal life", "variable life">>)
        THEN "term life insurance"
        ELSE IF includesAny(lowerQuery,
                            <<"premium", "cash value", "beneficiary", "underwriting">>)
        THEN "premium"
        ELSE "general_insurance_query")

analyzeIntent(query) ==
    With(toLowerCase(query), LAMBDA lowerQuery :
        IF includesAny(lowerQuery,
                       <<"term life", "whole life", "universal life", "variable life">>)
        THEN "policy_explanation"
        ELSE IF includesAny(lowerQuery,
                            <<"premium", "cash value", "beneficiary", "underwriting">>)
        THEN "term_definition"
        ELSE IF includesAny(lowerQuery, <<"how much", "coverage", "amount">>)
        THEN "coverage_question"
        ELSE IF includesAny(lowerQuery, <<"health", "medical", "exam", "pre-existing">>)
        THEN "health_question"
        ELSE IF includesAny(lowerQuery, <<"claim", "file", "process">>)
        THEN "claims_question"
        ELSE "general_insurance_query")

\* The keys extractContextFromQuery sets, in the order it inserts them
\* (the order of Object.entries).
ContextKeys == <<"category", "policyType", "coverageAmount", "age", "healthStatus">>

\* String(value) of the value userData holds under key.
stringOf(userData, key) ==
    IF key \in {"coverageAmount", "age"}
    THEN numberToString(userData[key])
    ELSE userData[key]

\* Object.entries(userData).forEach: {{key}} replaced by String(value),
\* for the keys from position i on.
RECURSIVE fillPlaceholders(_, _, _)
fillPlaceholders(response, userData, i) ==
    With(response, LAMBDA r :
        IF i > Len(ContextKeys) THEN r
        ELSE LET key == ContextKeys[i] IN
             fillPlaceholders(
                 IF key \in DOMAIN userData
                 THEN replaceAll(r, "{{" \o key \o "}}", stringOf(userData, key))
                 ELSE r,
                 userData, i + 1))

enhanceWithPolicyDetails(response, policyInfo) ==
    IF includes(response, policyInfo.description) THEN response
    ELSE With(IF /\ includes(response, "features")
                 /\ ~includes(response, join(policyInfo.features, ","))
              THEN replaceAll(response, "{{features}}", join(policyInfo.features, ", "))
              ELSE response,
              LAMBDA r1 :
                IF /\ includes(r1, "best for")
                   /\ ~includes(r1, join(policyInfo.bestFor, ","))
                THEN replaceAll(r1, "{{bestFor}}", join(policyInfo.bestFor, ", "))
                ELSE r1)

BackReferences == <<"this", "that", "it", "these", "those">>

\* [threw |-> a TypeError was thrown, value |-> the response otherwise].
\* extractTermsFromMessages calls knowledgeBase.getAllTerms, which
\* KnowledgeBase does not define: reaching it throws.
applyContext(baseResponse, previousMessages, userData) ==
    LET withAmount(r1) ==
            IF "coverageAmount" \in DOMAIN userData /\ userData.coverageAmount # 0
            THEN With(formatUSD(userData.coverageAmount), LAMBDA formattedAmount :
                    With(replaceAll(r1, "{{coverageAmount}}", formattedAmount), LAMBDA r :
                        IF includes(r, "coverage") \/ includes(r, "policy")
                        THEN replaceWordsFrom(r, 1, <<"your coverage", "your policy">>,
                                              "your " \o formattedAmount \o " coverage")
                        ELSE r))
            ELSE r1
        withPolicy(r2) ==
            IF "policyType" \in DOMAIN userData /\ userData.policyType # ""
            THEN With(findPolicyType(userData.policyType), LAMBDA policyInfo :
                    IF policyInfo # None
                    THEN enhanceWithPolicyDetails(r2, policyInfo[1])
                    ELSE r2)
            ELSE r2
        lastTwoMessages ==
            IF previousMessages = None THEN <<>>
            ELSE LET pm == previousMessages[1]
                 IN  SubSeq(pm, IF Len(pm) > 2 THEN Len(pm) - 1 ELSE 1, Len(pm))
        referencesTerms ==
            \E i \in DOMAIN lastTwoMessages :
                includesAny(toLowerCase(lastTwoMessages[i]), BackReferences)
    IN  With(fillPlaceholders(baseResponse, userData, 1), LAMBDA r1 :
            With(withAmount(r1), LAMBDA r2 :
                With(withPolicy(r2), LAMBDA r3 :
                    [threw |-> referencesTerms, value |-> r3])))

getSuggestionsByCategory(category) ==
    IF category = "basic" THEN commonQuestions.coverage
    ELSE IF category = "health" THEN commonQuestions.healthRelated
    ELSE IF category = "policy"
    THEN <<"What's the difference between term and whole life insurance?",
           "Can I modify my policy after purchase?",
           "How does cash value work in a whole life policy?">>
    ELSE IF category = "claims" THEN commonQuestions.claims
    ELSE commonQuestions.coverage

DetailMarkers == <<"feature", "benefit", "cover", "policy", "premium", "underwriting">>

\* calculateConfidence testing for the apology before the fallback phrase.
calculateConfidence_apologyFirst(response) ==
    With(response, LAMBDA r :
        IF includes(r, "I apologize") \/ includes(r, "I'm having trouble") THEN 30
        ELSE IF includes(r, "I don't have specific information") THEN 50
        ELSE With(70 + 5 * Cardinality({i \in DOMAIN DetailMarkers :
                                            includes(r, DetailMarkers[i])}),
                  LAMBDA raw : IF raw < 95 THEN raw ELSE 95))

\* The confidence in hundredths: 50 is 0.5, 30 is 0.3, 95 is 0.95.
calculateConfidence(response) ==
    With(response, LAMBDA r :
        IF includes(r, "I don't have specific information") THEN 50
        ELSE IF includes(r, "I apologize") \/ includes(r, "I'm having trouble")
        THEN 30
        ELSE With(70 + 5 * Cardinality({i \in DOMAIN DetailMarkers :
                                            includes(r, DetailMarkers[i])}),
                  LAMBDA raw : IF raw < 95 THEN raw ELSE 95))

\* category is None when userData has none.
formatResponse(response, category) ==
    With(response, LAMBDA r :
        [message |-> r,
         suggestions |->
            With(getSuggestedQuestions(r), LAMBDA base :
                IF category # None
                THEN take(pushMissing(base, getSuggestionsByCategory(category[1])), 3)
                ELSE base),
         relatedTopics |-> getRelatedTopics(r),
         confidence |-> calculateConfidence(r)])

\* confidence 100 is the code's 1.
generateErrorResponse ==
    [message |-> "I apologize, but I'm having trouble processing your request. "
                 \o "Please try rephrasing your question or contact our support team for assistance.",
     suggestions |-> <<"Can you explain your insurance needs?",
                       "What type of coverage are you looking for?",
                       "Would you like to speak with an insurance agent?">>,
     confidence |-> 100]

\* context is [userQuery, previousMessages (None or Some(texts)), userData].
generateResponse(context) ==
    With(context, LAMBDA ctx :
        With(applyContext(findRelevantInformation(analyzeIntent(ctx.userQuery)),
                          ctx.previousMessages, ctx.userData),
             LAMBDA contextualized :
                IF contextualized.threw THEN generateErrorResponse
                ELSE formatResponse(contextualized.value,
                                    IF "category" \in DOMAIN ctx.userData
                                    THEN Some(ctx.userData.category) ELSE None)))


(***************************************************************************)
(* InsuranceService: enhancement, follow-up questions, processQuery        *)
(***************************************************************************)

\* The catch branch (return aiResponse) needs a step to throw; none does on
\* strings.
enhanceResponseWithKnowledgeBase(aiResponse, query, context, category) ==
    With(findRelevantInformation(query), LAMBDA relevantInfo :
        With(IF "policyType" \in DOMAIN context /\ context.policyType # ""
             THEN findPolicyType(context.policyType)
             ELSE None,
             LAMBDA policyInfo :
                IF relevantInfo = "" THEN aiResponse
                ELSE IF /\ policyInfo # None
                        /\ ~includes(toLowerCase(aiResponse),
                                     toLowerCase(policyInfo[1].description))
                THEN aiResponse \o "\n\nAdditional information: "
                        \o policyInfo[1].description
                ELSE IF ~includes(toLowerCase(aiResponse), toLowerCase(relevantInfo))
                THEN aiResponse \o "\n\nAdditional information: " \o relevantInfo
                ELSE aiResponse))

categoryQuestions(category) ==
    IF category = "basic"
    THEN <<"What types of life insurance are available?",
           "How much coverage do I need?",
           "What affects my insurance premium cost?">>
    ELSE IF category = "health"
    THEN <<"How do health conditions affect my coverage?",
           "Do I need a medical exam for insurance?",
           "Can I get insurance with pre-existing conditions?">>
    ELSE IF category = "policy"
    THEN <<"What's the difference between term and whole life?",
           "Can I modify my policy after purchase?",
           "How do premiums change over time?">>
    ELSE IF category = "claims"
    THEN <<"What documents are needed for a claim?",
           "How long does the claims process take?",
           "Who can file a claim?">>
    ELSE <<>>

\* generateFollowUpQuestions listing the category's questions first.
generateFollowUpQuestions_categoryFirst(category, query) ==
    With(getRelatedTopics(query), LAMBDA relatedTopics :
        LET topicQuestions ==
                [i \in DOMAIN relatedTopics |->
                    "What can you tell me about " \o relatedTopics[i] \o "?"]
        IN  take(unique(categoryQuestions(category) \o topicQuestions), 3))

\* The catch branch (three generic questions) needs a step to throw; none
\* does on strings.
generateFollowUpQuestions(category, query) ==
    With(getRelatedTopics(query), LAMBDA relatedTopics :
        LET topicQuestions ==
                [i \in DOMAIN relatedTopics |->
                    "What can you tell me about " \o relatedTopics[i] \o "?"]
        IN  take(unique(topicQuestions \o categoryQuestions(category)), 3))

\* The questions of the catch block of generateFollowUpQuestions.
genericFollowUpQuestions ==
    <<"What types of insurance are you interested in?",
      "Do you have any specific coverage needs?",
      "Would you like to learn about term or whole life insurance?">>

\* generateFollowUpQuestions on any value given as query: Some(text), or
\* None for undefined, on which context.toLowerCase() in getRelatedTopics
\* throws a TypeError that the catch block answers.
generateFollowUpQuestionsOn(category, queryValue) ==
    IF queryValue = None THEN genericFollowUpQuestions
    ELSE generateFollowUpQuestions(category, queryValue[1])

\* The test of processQuery as this.config.useAI !== true.
usesAI_unlessTrue(override, cfg) ==
    (override # None /\ override[1] # "") \/ cfg.useAI # Some(TRUE)

\* modelOverride || this.config.useAI !== false
usesAI(override, cfg) == (override # None /\ override[1] # "") \/ cfg.useAI # Some(FALSE)

\* processQuery answering a failure of the language model with the fixed
\* reply of its outer catch.
processQuery_sorry(query, override, cfg, llm) ==
    With(categorizeQuestion(query), LAMBDA category :
        With(extractContextFromQuery(query, category), LAMBDA context :
            IF usesAI(override, cfg)
            THEN IF llm.kind = "completes"
                 THEN enhanceResponseWithKnowledgeBase(llm.text, query, context,
                                                       category)
                 ELSE "Sorry, I'm having trouble answering that question about "
                        \o "insurance. Please try rephrasing it or ask something else."
            ELSE generateResponse([userQuery |-> query, previousMessages |-> None,
                                   userData |-> context]).message))

\* What the language model does in a turn:
\*   [kind |-> "completes", text |-> the completion]   model.complete resolves
\*   [kind |-> "unresolved"]   getLanguageModel throws (no provider, no fallback)
\*   [kind |-> "rejects"]      model.complete rejects
\* processQuery(query, modelOverride, apiKeys, providerSettings) under
\* configuration cfg; apiKeys and providerSettings only reach the model,
\* whose behaviour llm states. The outer catch (the fixed 'Sorry, ...' reply)
\* needs categorizeQuestion, extractContextFromQuery or generateResponse to
\* throw; generateResponse catches its own errors and the others do not
\* throw on strings.
processQuery(query, override, cfg, llm) ==
    With(categorizeQuestion(query), LAMBDA category :
        With(extractContextFromQuery(query, category), LAMBDA context :
            LET fallback == generateResponse([userQuery |-> query,
                                              previousMessages |-> None,
                                              userData |-> context]).message
            IN  IF usesAI(override, cfg)
                THEN IF llm.kind = "completes"
                     THEN enhanceResponseWithKnowledgeBase(llm.text, query, context,
                                                           category)
                     ELSE fallback
                ELSE fallback))

(***************************************************************************)
(* Dates and JSON, as the hook's persistence uses them                     *)
(***************************************************************************)

\* A Date is [valid, time]: time in milliseconds since the epoch, and
\* valid = FALSE for an Invalid Date.
newDate(ms) == [valid |-> TRUE, time |-> ms]

InvalidDate == [valid |-> FALSE, time |-> 0]

\* String(n).padStart(w, '0')
RECURSIVE padStart(_, _)
padStart(d, w) == IF Len(d) >= w THEN d ELSE padStart("0" \o d, w)

\* Date.prototype.toISOString for a time within the first minute of the
\* epoch (the clock of the model never leaves it).
toISOString(d) ==
    "1970-01-01T00:00:" \o padStart(numberToString(d.time \div 1000), 2)
        \o "." \o padStart(numberToString(d.time % 1000), 3) \o "Z"

AllDigits(s) == \A i \in 1..Len(s) : IsDigit(charAt(s, i))

\* new Date(isoString): the inverse of toISOString on its range, and an
\* Invalid Date for any other text.
parseISO(text) ==
    IF /\ Len(text) = 24
       /\ SubSeq(text, 1, 17) = "1970-01-01T00:00:"
       /\ AllDigits(SubSeq(text, 18, 19))
       /\ charAt(text, 20) = "."
       /\ AllDigits(SubSeq(text, 21, 23))
       /\ charAt(text, 24) = "Z"
       /\ digitsValue(SubSeq(text, 18, 19)) < 60
    THEN newDate(1000 * digitsValue(SubSeq(text, 18, 19))
                    + digitsValue(SubSeq(text, 21, 23)))
    ELSE InvalidDate

\* JSON values are kept as syntax trees: an array is a sequence, an object a
\* record, a string a string. Date.prototype.toJSON gives the ISO string,
\* Some(text), or null, None, for an Invalid Date.
dateToJSON(d) == IF d.valid THEN Some(toISOString(d)) ELSE None

\* new Date(v) for the value of a parsed 'timestamp' property: a string is
\* parsed, null is the epoch, and a missing property (undefined) is invalid.
reviveDate(msg) ==
    IF "timestamp" \notin DOMAIN msg THEN InvalidDate
    ELSE IF msg.timestamp = None THEN newDate(0)
    ELSE parseISO(msg.timestamp[1])

\* JSON.stringify of one message that leaves the category out.
messageToJSON_noCategory(msg) ==
    [k \in DOMAIN msg \ {"category"} |->
        IF k = "timestamp" THEN dateToJSON(msg[k]) ELSE msg[k]]

\* JSON.stringify of one message: every own property, the Date through toJSON.
messageToJSON(msg) ==
    [k \in DOMAIN msg |-> IF k = "timestamp" THEN dateToJSON(msg[k]) ELSE msg[k]]

\* The texts localStorage can hold under the key:
\*   [kind |-> "array", value |-> the elements]  the JSON text of an array
\*   [kind |-> "object"]   JSON text of a value without a map method
\*   [kind |-> "garbage"]  text that is not JSON
\*   [kind |-> "empty"]    the empty string
JSONArrayText(elements) == [kind |-> "array", value |-> elements]

JSONObjectText == [kind |-> "object", value |-> <<>>]

GarbageText == [kind |-> "garbage", value |-> <<>>]

EmptyText == [kind |-> "empty", value |-> <<>>]

\* JSON.stringify(messages)
JSONstringify(msgs) == JSONArrayText([i \in DOMAIN msgs |-> messageToJSON(msgs[i])])

\* { ...msg, timestamp: new Date(msg.timestamp) }
reviveMessage(msg) ==
    [k \in (DOMAIN msg) \cup {"timestamp"} |->
        IF k = "timestamp" THEN reviveDate(msg) ELSE msg[k]]

LOCAL_STORAGE_KEY == "insurance-chat-history"

\* The initializer starting from an empty transcript when the load fails.
loadMessages_emptyOnFailure(opts, stored, getItemThrows) ==
    IF opts.persistMessages
    THEN IF getItemThrows
         THEN [threw |-> TRUE, loaded |-> FALSE, value |-> <<>>]
         ELSE IF stored # None /\ stored[1].kind # "empty"
              THEN IF stored[1].kind = "array"
                   THEN [threw |-> FALSE, loaded |-> TRUE,
                         value |-> [i \in DOMAIN stored[1].value |->
                                        reviveMessage(stored[1].value[i])]]
                   ELSE [threw |-> TRUE, loaded |-> FALSE, value |-> <<>>]
              ELSE [threw |-> FALSE, loaded |-> FALSE, value |-> opts.initialMessages]
    ELSE [threw |-> FALSE, loaded |-> FALSE, value |-> opts.initialMessages]

\* The useState initializer of messages: [threw, value]. getItemThrows says
\* whether localStorage.getItem throws; threw says whether the catch ran.
loadMessages(opts, stored, getItemThrows) ==
    IF opts.persistMessages
    THEN IF getItemThrows
         THEN [threw |-> TRUE, loaded |-> FALSE, value |-> opts.initialMessages]
         ELSE IF stored # None /\ stored[1].kind # "empty"
              THEN IF stored[1].kind = "array"
                   THEN [threw |-> FALSE, loaded |-> TRUE,
                         value |-> [i \in DOMAIN stored[1].value |->
                                        reviveMessage(stored[1].value[i])]]
                   ELSE [threw |-> TRUE, loaded |-> FALSE, value |-> opts.initialMessages]
              ELSE [threw |-> FALSE, loaded |-> FALSE, value |-> opts.initialMessages]
    ELSE [threw |-> FALSE, loaded |-> FALSE, value |-> opts.initialMessages]

\* The two message shapes sendMessage builds.
userMessage(content, now) ==
    [content |-> content, role |-> "user", timestamp |-> newDate(now)]

assistantMessage(response, now, category, followUps) ==
    [content |-> response, role |-> "assistant", timestamp |-> newDate(now),
     category |-> category, suggestions |-> followUps]

\* The catch block keeping whatever was thrown.
toError_asThrown(thrown) == thrown

\* err instanceof Error ? err : new Error('Failed to process message');
\* a thrown value is [isError, message].
toError(thrown) ==
    IF thrown.isError THEN thrown
    ELSE [isError |-> TRUE, message |-> "Failed to process message"]

\* The index of the first user message, 0 when there is none.
lastUserIndex_first(prev) ==
    IF \E i \in DOMAIN prev : prev[i].role = "user"
    THEN CHOOSE i \in DOMAIN prev :
            /\ prev[i].role = "user"
            /\ \A j \in DOMAIN prev : prev[j].role = "user" => i <= j
    ELSE 0

\* The index of the last user message, 0 when there is none.
lastUserIndex(prev) ==
    IF \E i \in DOMAIN prev : prev[i].role = "user"
    THEN CHOOSE i \in DOMAIN prev :
            /\ prev[i].role = "user"
            /\ \A j \in DOMAIN prev : prev[j].role = "user" => j <= i
    ELSE 0

\* The updater cutting the last user message off as well: prev.slice(0, i).
truncateToLastUser_dropsUser(prev) ==
    IF lastUserIndex(prev) = 0 THEN prev ELSE SubSeq(prev, 1, lastUserIndex(prev) - 1)

\* The updater retryLastMessage passes to setMessages: everything up to and
\* including the last user message.
truncateToLastUser(prev) ==
    IF lastUserIndex(prev) = 0 THEN prev ELSE SubSeq(prev, 1, lastUserIndex(prev))

(***************************************************************************)
(* Bounds and the inputs of the session                                    *)
(***************************************************************************)

\* Turns (sendMessage and retryLastMessage invocations) in a run.
MaxSends == 2

\* Sessions constructed in a run.
MaxMounts == 2

\* sendMessage invocations suspended at the same time.
MaxInFlight == 2

\* Local-store failures in a run.
MaxStoreErrors == 1

\* The texts a user sends.
Queries == {"What is term life insurance?", "I am 40 years old and have diabetes"}

\* The texts the language model completes with.
Completions == {"Term life insurance covers you for a fixed period."}

\* The names setModelOverride is given.
ModelNames == {"gpt-4"}

\* The values a failing step of a turn throws: an Error, and a value that is
\* not an Error.
Thrown == {[isError |-> TRUE, message |-> "Service error"],
           [isError |-> FALSE, message |-> "timeout"]}

\* A caller-supplied initialMessages array.
Welcome ==
    <<[content |-> "Welcome! Ask me about life insurance.", role |-> "assistant",
       timestamp |-> newDate(0)]>>

\* The transcript an earlier visit left in the store.
SavedTranscript ==
    <<[content |-> "Previous question", role |-> "user", timestamp |-> newDate(0)],
      [content |-> "Previous answer", role |-> "assistant", timestamp |-> newDate(1),
       category |-> "basic"]>>

\* The options of useInsuranceChat: initialMessages defaults to a fresh []
\* on every render (stableInitial = FALSE); a caller-supplied array keeps
\* its identity across renders. Four option records in which every two of
\* persistMessages, onError and initialMessages take all their combinations.
OptionSets ==
    {[persistMessages |-> TRUE, onError |-> TRUE,
      initialMessages |-> <<>>, stableInitial |-> FALSE],
     [persistMessages |-> TRUE, onError |-> FALSE,
      initialMessages |-> Welcome, stableInitial |-> TRUE],
     [persistMessages |-> FALSE, onError |-> TRUE,
      initialMessages |-> Welcome, stableInitial |-> TRUE],
     [persistMessages |-> FALSE, onError |-> FALSE,
      initialMessages |-> <<>>, stableInitial |-> FALSE]}

\* The InsuranceServiceConfig: useAI is left out or set to false.
ConfigSets == {[useAI |-> None], [useAI |-> Some(FALSE)]}

\* What localStorage holds under the key before the first session; a session
\* that does not persist is tried on an empty and on a filled store.
StoreSets(opts) ==
    IF opts.persistMessages
    THEN {None, Some(GarbageText), Some(JSONObjectText), Some(EmptyText),
          Some(JSONstringify(SavedTranscript))}
    ELSE {None, Some(JSONstringify(SavedTranscript))}

NoCall == [op |-> "none", call |-> None]

NoText == [text |-> "", kinds |-> {}, fragments |-> 0]

\* No CacheService has been constructed.
NoCache ==
    [store |-> <<>>, now |-> 0, defaultTTL |-> 0, pending |-> {},
     last |-> [op |-> "none"], written |-> <<>>, invocations |-> {},
     started |-> 0, ticks |-> 0]

\* The InsuranceChat component with no submission under way and its
\* suggestions state as useState([]) leaves it.
NoChat ==
    [stage |-> "idle", content |-> "", response |-> None, sends |-> 0,
     suggestions |-> <<>>]

\* Before the first session: nothing is mounted, the store holds what earlier
\* visits left.
HookInit ==
    /\ mounted = FALSE
    /\ options \in OptionSets
    /\ config \in ConfigSets
    /\ store \in StoreSets(options)
    /\ initialStore = store
    /\ messages = <<>>
    /\ isLoading = FALSE
    /\ error = None
    /\ suggestions = <<>>
    /\ modelOverride = None
    /\ lastMessageRef = ""
    /\ contextRef = <<>>
    /\ messagesIsInitial = FALSE
    /\ effectPending = FALSE
    /\ calls = {}
    /\ clock = 2
    /\ sends = 0
    /\ mounts = 0
    /\ onErrorCalls = <<>>
    /\ storeOps = {}
    /\ storeErrors = 0
    /\ persisted = None
    /\ turns = [base |-> 0, failed |-> FALSE]
    /\ last = NoCall

Init ==
    /\ HookInit
    /\ arg = NoText
    /\ ret = None
    /\ chat = NoChat
    /\ cache = NoCache

\* Whether a local-store call may fail in this step.
StoreFailures == IF storeErrors < MaxStoreErrors THEN BOOLEAN ELSE {FALSE}

(***************************************************************************)
(* useInsuranceChat: construction and the persistence effect               *)
(***************************************************************************)

\* The first render of useInsuranceChat(options): every useState and useRef
\* takes its initial value; the effect runs after it.
Construct ==
    /\ ~mounted
    /\ mounts < MaxMounts
    /\ \E getItemThrows \in StoreFailures :
         LET load == loadMessages(options, store, getItemThrows) IN
         /\ messages' = load.value
         /\ messagesIsInitial' = ~load.loaded
         /\ storeOps' = IF options.persistMessages THEN storeOps \cup {"getItem"}
                        ELSE storeOps
         /\ storeErrors' = IF load.threw THEN storeErrors + 1 ELSE storeErrors
         /\ turns' = [base |-> Len(load.value), failed |-> FALSE]
         /\ last' = [op |-> "construct",
                     call |-> Some([threw |-> load.threw, loaded |-> load.loaded,
                                    value |-> load.value, from |-> persisted])]
    /\ mounted' = TRUE
    /\ mounts' = mounts + 1
    /\ isLoading' = FALSE
    /\ error' = None
    /\ suggestions' = <<>>
    /\ modelOverride' = None
    /\ lastMessageRef' = ""
    /\ contextRef' = <<>>
    /\ effectPending' = TRUE
    /\ calls' = {}
    /\ UNCHANGED <<options, config, store, clock, sends, onErrorCalls, initialStore,
                   persisted, pureVars, chat, cache>>

\* The effect writing only a transcript that has messages.
PersistEffect_skipsEmpty ==
    /\ mounted
    /\ effectPending
    /\ effectPending' = FALSE
    /\ IF options.persistMessages /\ Len(messages) > 0
       THEN \E setItemThrows \in StoreFailures :
              /\ storeOps' = storeOps \cup {"setItem"}
              /\ IF setItemThrows
                 THEN /\ storeErrors' = storeErrors + 1
                      /\ UNCHANGED <<store, persisted>>
                 ELSE /\ store' = Some(JSONstringify(messages))
                      /\ persisted' = Some(messages)
                      /\ UNCHANGED storeErrors
       ELSE UNCHANGED <<store, persisted, storeOps, storeErrors>>
    /\ UNCHANGED <<mounted, options, config, messages, isLoading, error, suggestions,
                   modelOverride, lastMessageRef, contextRef, messagesIsInitial,
                   calls, clock, sends, mounts, onErrorCalls, initialStore, turns,
                   last, pureVars, chat, cache>>

\* The effect writing whether or not persistMessages is set.
PersistEffect_alwaysWrites ==
    /\ mounted
    /\ effectPending
    /\ effectPending' = FALSE
    /\ storeOps' = storeOps \cup {"setItem"}
    /\ store' = Some(JSONstringify(messages))
    /\ persisted' = Some(messages)
    /\ UNCHANGED <<mounted, options, config, messages, isLoading, error, suggestions,
                   modelOverride, lastMessageRef, contextRef, messagesIsInitial,
                   calls, clock, sends, mounts, onErrorCalls, initialStore, turns,
                   last, storeErrors, pureVars, chat, cache>>

\* The effect with dependencies [messages, persistMessages].
PersistEffect ==
    /\ mounted
    /\ effectPending
    /\ effectPending' = FALSE
    /\ IF options.persistMessages
       THEN \E setItemThrows \in StoreFailures :
              /\ storeOps' = storeOps \cup {"setItem"}
              /\ IF setItemThrows
                 THEN /\ storeErrors' = storeErrors + 1
                      /\ UNCHANGED <<store, persisted>>
                 ELSE /\ store' = Some(JSONstringify(messages))
                      /\ persisted' = Some(messages)
                      /\ UNCHANGED storeErrors
       ELSE UNCHANGED <<store, persisted, storeOps, storeErrors>>
    /\ UNCHANGED <<mounted, options, config, messages, isLoading, error, suggestions,
                   modelOverride, lastMessageRef, contextRef, messagesIsInitial,
                   calls, clock, sends, mounts, onErrorCalls, initialStore, turns,
                   last, pureVars, chat, cache>>

\* The component that uses the hook goes away (a reload of the page).
Unmount ==
    /\ mounted
    /\ ~effectPending
    /\ calls = {}
    /\ mounted' = FALSE
    /\ UNCHANGED <<options, config, messages, isLoading, error, suggestions,
                   modelOverride, lastMessageRef, contextRef, messagesIsInitial,
                   effectPending, calls, store, clock, sends, mounts, onErrorCalls,
                   storeOps, storeErrors, initialStore, persisted, turns, last,
                   pureVars, chat, cache>>

(***************************************************************************)
(* useInsuranceChat: sendMessage                                           *)
(***************************************************************************)

\* What a step of a turn may throw: nothing, or one of the values of Thrown
\* (the service the hook calls is replaceable, and the tests replace it by
\* one whose calls reject).
Faults == {None} \cup {Some(t) : t \in Thrown}

\* What the language model does when processQuery reaches it.
LLMOutcomes(override, cfg) ==
    IF usesAI(override, cfg)
    THEN {[kind |-> "completes", text |-> t] : t \in Completions}
            \cup {[kind |-> "unresolved", text |-> ""], [kind |-> "rejects", text |-> ""]}
    ELSE {[kind |-> "notInvoked", text |-> ""]}

Categories == {"health", "claims", "policy", "basic"}

\* The function f with every value computed (f itself, which TLC would
\* otherwise compute anew at each application).
Tabulated(f) == f @@ <<>>

\* ChatMiddleware.extractUserContext: the policy type is looked for in the
\* message as typed (no lower-casing), the coverage amount as
\* extractContextFromQuery does; age and health are not looked for.
extractUserContext(message, category) ==
    LET policyType ==
            IF includes(message, "term life") THEN [policyType |-> "term"]
            ELSE IF includes(message, "whole life") THEN [policyType |-> "whole"]
            ELSE IF includes(message, "universal life") THEN [policyType |-> "universal"]
            ELSE <<>>
        coverage ==
            With(coverageMatch(message), LAMBDA cm :
                IF cm = None THEN <<>>
                ELSE With(coverageAmountOf(message, cm[1]), LAMBDA amount :
                        IF amount > 0 THEN [coverageAmount |-> amount] ELSE <<>>))
    IN  spread(spread([category |-> category], policyType), coverage)

\* ChatMiddleware.processMessage: the reply of the Response Generator to the
\* message. The catch branch needs a step to throw; categorizeQuestion and
\* extractUserContext do not on strings, and generateResponse catches its own.
processMessage(message) ==
    With(categorizeQuestion(message), LAMBDA category :
        With(generateResponse([userQuery |-> message, previousMessages |-> None,
                               userData |-> extractUserContext(message, category)]),
             LAMBDA response :
                [message |-> response.message,
                 suggestions |-> response.suggestions,
                 category |-> category]))

\* middleware.processMessage on the texts a user submits.
middleware ==
    [processMessage |-> Tabulated([q \in Queries |-> processMessage(q)])]

\* The texts sendMessage is called with: by the user of the hook, and by the
\* InsuranceChat component.
Contents == Queries \cup {middleware.processMessage[q].message : q \in Queries}

\* serviceRef.current: the InsuranceService of the session, its methods
\* tabulated on the inputs the session can give them.
serviceRef ==
    With(Contents, LAMBDA contents :
        [categorizeQuestion |-> Tabulated([q \in contents |-> categorizeQuestion(q)]),
         extractContextFromQuery |->
            Tabulated([x \in contents \X Categories |->
                            extractContextFromQuery(x[1], x[2])]),
         processQuery |->
            Tabulated([x \in {<<q, o, cfg, llm>> :
                                q \in Queries,
                                o \in {None} \cup {Some(m) : m \in ModelNames},
                                cfg \in ConfigSets,
                                llm \in LLMOutcomes(None, [useAI |-> None])
                                            \cup LLMOutcomes(None, [useAI |-> Some(FALSE)])}
                              \cup {<<q, None, [useAI |-> None], llm>> :
                                        q \in contents \ Queries,
                                        llm \in LLMOutcomes(None, [useAI |-> None])} |->
                            processQuery(x[1], x[2], x[3], x[4])]),
         generateFollowUpQuestions |->
            Tabulated([x \in Categories \X contents |->
                            generateFollowUpQuestions(x[1], x[2])])])

\* An invocation suspended at an await: pc names the awaited call.
newCall(content, retry, retried) ==
    [id |-> sends + 1, content |-> content, pc |-> "categorizeQuestion",
     category |-> "", override |-> modelOverride, retry |-> retry,
     retried |-> retried, startLen |-> Len(messages),
     errsBefore |-> Len(onErrorCalls)]

settled(c, llm, thrown) ==
    [op |-> "settled",
     call |-> Some([content |-> c.content, retry |-> c.retry, retried |-> c.retried,
                    startLen |-> c.startLen, errsBefore |-> c.errsBefore,
                    llm |-> llm.kind, thrown |-> thrown])]

\* sendMessage(content) up to its first await.
SendMessage(content) ==
    /\ mounted
    /\ ~effectPending
    /\ sends < MaxSends
    /\ Cardinality(calls) < MaxInFlight
    /\ isLoading' = TRUE
    /\ error' = None
    /\ lastMessageRef' = content
    /\ messages' = Append(messages, userMessage(content, clock))
    /\ clock' = clock + 1
    /\ messagesIsInitial' = FALSE
    /\ effectPending' = TRUE
    /\ calls' = calls \cup {newCall(content, FALSE, None)}
    /\ sends' = sends + 1
    /\ last' = [op |-> "sendMessage", call |-> None]
    /\ UNCHANGED <<mounted, options, config, suggestions, modelOverride, contextRef,
                   store, mounts, onErrorCalls, storeOps, storeErrors, initialStore,
                   persisted, turns, pureVars, chat, cache>>

\* The catch block of sendMessage without the finally block after it.
Fail_keepsLoading(c, thrown, llm) ==
    /\ error' = Some(toError(thrown))
    /\ onErrorCalls' = IF options.onError THEN Append(onErrorCalls, toError(thrown))
                       ELSE onErrorCalls
    /\ calls' = calls \ {c}
    /\ turns' = [turns EXCEPT !.failed = TRUE]
    /\ last' = settled(c, llm, Some(thrown))
    /\ UNCHANGED <<mounted, options, config, messages, suggestions, modelOverride,
                   lastMessageRef, messagesIsInitial, effectPending, store, clock,
                   sends, mounts, storeOps, storeErrors, initialStore, persisted,
                   isLoading, pureVars, chat, cache>>

\* The catch and finally blocks of sendMessage for the value thrown.
Fail(c, thrown, llm) ==
    /\ error' = Some(toError(thrown))
    /\ onErrorCalls' = IF options.onError THEN Append(onErrorCalls, toError(thrown))
                       ELSE onErrorCalls
    /\ isLoading' = FALSE
    /\ calls' = calls \ {c}
    /\ turns' = [turns EXCEPT !.failed = TRUE]
    /\ last' = settled(c, llm, Some(thrown))
    /\ UNCHANGED <<mounted, options, config, messages, suggestions, modelOverride,
                   lastMessageRef, messagesIsInitial, effectPending, store, clock,
                   sends, mounts, storeOps, storeErrors, initialStore, persisted,
                   pureVars, chat, cache>>

\* From the resolution of categorizeQuestion to the call of processQuery.
AfterCategorize(c) ==
    /\ mounted
    /\ ~effectPending
    /\ c \in calls
    /\ c.pc = "categorizeQuestion"
    /\ \E fault \in Faults, service \in {serviceRef} :
         IF fault = None
         THEN LET category == service.categorizeQuestion[c.content]
                  extractedContext ==
                      service.extractContextFromQuery[<<c.content, category>>]
              IN  /\ contextRef' = spread(contextRef, extractedContext)
                  /\ calls' = (calls \ {c}) \cup
                                {[c EXCEPT !.pc = "processQuery", !.category = category]}
                  /\ UNCHANGED <<mounted, options, config, messages, isLoading, error,
                                 suggestions, modelOverride, lastMessageRef,
                                 messagesIsInitial, effectPending, store, clock, sends,
                                 mounts, onErrorCalls, storeOps, storeErrors,
                                 initialStore, persisted, turns, last, pureVars, chat, cache>>
         ELSE /\ Fail(c, fault[1], [kind |-> "notInvoked", text |-> ""])
              /\ UNCHANGED contextRef

\* The end of sendMessage appending the assistant message to the transcript
\* the call saw when it appended its user message (setMessages given an
\* array built from the call's own copy instead of an updater).
AfterProcess_staleTranscript(c) ==
    /\ mounted
    /\ ~effectPending
    /\ c \in calls
    /\ c.pc = "processQuery"
    /\ \E fault \in Faults, service \in {serviceRef} :
         IF fault = None
         THEN \E llm \in LLMOutcomes(c.override, config) :
              LET response ==
                      service.processQuery[<<c.content, c.override, config, llm>>]
                  followUpSuggestions ==
                      service.generateFollowUpQuestions[<<c.category, c.content>>]
              IN  /\ messages' = Append(SubSeq(messages, 1, c.startLen + 1),
                        assistantMessage(response, clock, c.category, followUpSuggestions))
                  /\ clock' = clock + 1
                  /\ suggestions' = IF Len(followUpSuggestions) > 0
                                    THEN followUpSuggestions ELSE <<>>
                  /\ isLoading' = FALSE
                  /\ messagesIsInitial' = FALSE
                  /\ effectPending' = TRUE
                  /\ calls' = calls \ {c}
                  /\ last' = settled(c, llm, None)
                  /\ UNCHANGED <<mounted, options, config, error, modelOverride,
                                 lastMessageRef, contextRef, store, sends, mounts,
                                 onErrorCalls, storeOps, storeErrors, initialStore,
                                 persisted, turns, pureVars, chat, cache>>
         ELSE /\ Fail(c, fault[1], [kind |-> "notInvoked", text |-> ""])
              /\ UNCHANGED contextRef

\* From the resolution of processQuery to the end of sendMessage.
AfterProcess(c) ==
    /\ mounted
    /\ ~effectPending
    /\ c \in calls
    /\ c.pc = "processQuery"
    /\ \E fault \in Faults, service \in {serviceRef} :
         IF fault = None
         THEN \E llm \in LLMOutcomes(c.override, config) :
              LET response ==
                      service.processQuery[<<c.content, c.override, config, llm>>]
                  followUpSuggestions ==
                      service.generateFollowUpQuestions[<<c.category, c.content>>]
              IN  /\ messages' = Append(messages,
                        assistantMessage(response, clock, c.category, followUpSuggestions))
                  /\ clock' = clock + 1
                  /\ suggestions' = IF Len(followUpSuggestions) > 0
                                    THEN followUpSuggestions ELSE <<>>
                  /\ isLoading' = FALSE
                  /\ messagesIsInitial' = FALSE
                  /\ effectPending' = TRUE
                  /\ calls' = calls \ {c}
                  /\ last' = settled(c, llm, None)
                  /\ UNCHANGED <<mounted, options, config, error, modelOverride,
                                 lastMessageRef, contextRef, store, sends, mounts,
                                 onErrorCalls, storeOps, storeErrors, initialStore,
                                 persisted, turns, pureVars, chat, cache>>
         ELSE /\ Fail(c, fault[1], [kind |-> "notInvoked", text |-> ""])
              /\ UNCHANGED contextRef

(***************************************************************************)
(* useInsuranceChat: resetChat, retryLastMessage, setModelOverride         *)
(***************************************************************************)

\* resetChat leaving the remembered last message and the context alone.
ResetChat_keepsLastMessage ==
    /\ mounted
    /\ ~effectPending
    /\ messages' = options.initialMessages
    /\ effectPending' = ~messagesIsInitial
    /\ messagesIsInitial' = options.stableInitial
    /\ error' = None
    /\ suggestions' = <<>>
    /\ modelOverride' = None
    /\ IF options.persistMessages
       THEN /\ storeOps' = storeOps \cup {"removeItem"}
            /\ store' = None
            /\ persisted' = None
       ELSE UNCHANGED <<store, persisted, storeOps>>
    /\ turns' = [base |-> Len(options.initialMessages), failed |-> FALSE]
    /\ last' = [op |-> "resetChat", call |-> None]
    /\ UNCHANGED <<mounted, options, config, isLoading, calls, clock, sends, mounts,
                   onErrorCalls, initialStore, lastMessageRef, contextRef,
                   storeErrors, pureVars, chat, cache>>

\* resetChat(): setSuggestions([]) passes a new array and so causes a
\* render; the effect runs after it unless messages already was the array
\* this call passes to setMessages.
ResetChat ==
    /\ mounted
    /\ ~effectPending
    /\ messages' = options.initialMessages
    /\ effectPending' = ~messagesIsInitial
    /\ messagesIsInitial' = options.stableInitial
    /\ error' = None
    /\ suggestions' = <<>>
    /\ modelOverride' = None
    /\ lastMessageRef' = ""
    /\ contextRef' = <<>>
    /\ IF options.persistMessages
       THEN \E removeItemThrows \in StoreFailures :
              /\ storeOps' = storeOps \cup {"removeItem"}
              /\ IF removeItemThrows
                 THEN /\ storeErrors' = storeErrors + 1
                      /\ UNCHANGED <<store, persisted>>
                 ELSE /\ store' = None
                      /\ persisted' = None
                      /\ UNCHANGED storeErrors
       ELSE UNCHANGED <<store, persisted, storeOps, storeErrors>>
    /\ turns' = [base |-> Len(options.initialMessages), failed |-> FALSE]
    /\ last' = [op |-> "resetChat", call |-> None]
    /\ UNCHANGED <<mounted, options, config, isLoading, calls, clock, sends, mounts,
                   onErrorCalls, initialStore, pureVars, chat, cache>>

\* The turn retryLastMessage starts for the remembered text once the
\* transcript is cut back: the steps of a turn after the user message is in
\* the transcript, with the loading flag set and the prior error cleared.
RetryResend(lastMessage, failedCall) ==
    /\ isLoading' = TRUE
    /\ error' = None
    /\ calls' = calls \cup
                  {[newCall(lastMessage, TRUE, failedCall)
                        EXCEPT !.startLen = Len(truncateToLastUser(messages)) - 1]}
    /\ sends' = sends + 1

RetryLastMessage ==
    /\ mounted
    /\ ~effectPending
    /\ IF lastMessageRef # ""
       THEN /\ sends < MaxSends
            /\ Cardinality(calls) < MaxInFlight
            /\ messages' = truncateToLastUser(messages)
            /\ messagesIsInitial' = (/\ lastUserIndex(messages) = 0
                                     /\ messagesIsInitial
                                     /\ options.stableInitial)
            /\ effectPending' = (lastUserIndex(messages) # 0)
            /\ RetryResend(lastMessageRef,
                           IF /\ last.op = "settled"
                              /\ last.call[1].thrown # None
                              /\ ~last.call[1].retry
                           THEN Some([content |-> last.call[1].content,
                                      startLen |-> last.call[1].startLen])
                           ELSE None)
            /\ last' = [op |-> "retryLastMessage", call |-> Some(TRUE)]
       ELSE /\ last' = [op |-> "retryLastMessage", call |-> Some(FALSE)]
            /\ UNCHANGED <<messages, messagesIsInitial, effectPending, isLoading,
                           error, calls, sends>>
    /\ UNCHANGED <<mounted, options, config, suggestions, modelOverride,
                   lastMessageRef, contextRef, store, clock, mounts, onErrorCalls,
                   storeOps, storeErrors, initialStore, persisted, turns, pureVars, chat, cache>>

SetModelOverride(modelName) ==
    /\ mounted
    /\ ~effectPending
    /\ modelOverride # modelName
    /\ modelOverride' = modelName
    /\ messagesIsInitial' = (messagesIsInitial /\ options.stableInitial)
    /\ last' = [op |-> "setModelOverride", call |-> None]
    /\ UNCHANGED <<options, mounted, config, messages, isLoading, error, suggestions,
                   lastMessageRef, contextRef, effectPending,
                   calls, store, clock, sends, mounts, onErrorCalls, storeOps,
                   storeErrors, initialStore, persisted, turns, pureVars, chat, cache>>

(***************************************************************************)
(* The session                                                             *)
(***************************************************************************)

\* What the user of the hook does.
UserStep ==
    \/ Construct
    \/ Unmount
    \/ \E content \in Queries : SendMessage(content)
    \/ ResetChat
    \/ RetryLastMessage
    \/ \E modelName \in {None} \cup {Some(m) : m \in ModelNames} :
            SetModelOverride(modelName)

\* What happens by itself: effects and the continuations of awaits.
SystemStep ==
    \/ PersistEffect
    \/ \E c \in calls : AfterCategorize(c)
    \/ \E c \in calls : AfterProcess(c)

Next == UserStep \/ SystemStep

Spec == Init /\ [][Next]_vars

\* Calls one at a time: the user acts only when no turn is in flight.
NextSeq == (calls = {} /\ UserStep) \/ SystemStep

SpecSeq == Init /\ [][NextSeq]_vars

(***************************************************************************)
(* Properties of the session                                               *)
(***************************************************************************)

\* The turn that settled last, while no operation has been called since.
Settled == last.op = "settled"

SettledCall == last.call[1]

Even(n) == n % 2 = 0

\* The Response Generator's message for each text and the context
\* extracted from it.
generatorMessage ==
    Tabulated([q \in Queries |->
        generateResponse([userQuery |-> q, previousMessages |-> None,
                          userData |-> extractContextFromQuery(q, categorizeQuestion(q))
                         ]).message])

C2_ErrorHoldsThrownValue ==
    (Settled /\ SettledCall.thrown # None) =>
        /\ error = SettledCall.thrown
        /\ options.onError =>
              /\ Len(onErrorCalls) = SettledCall.errsBefore + 1
              /\ onErrorCalls[Len(onErrorCalls)] = SettledCall.thrown[1]
        /\ isLoading = FALSE
        /\ Len(messages) = SettledCall.startLen + 1
        /\ messages[Len(messages)].role = "user"
        /\ messages[Len(messages)].content = SettledCall.content

\* The Error the catch block of sendMessage reports for a thrown value.
reported(thrown) ==
    IF thrown.isError THEN thrown
    ELSE [isError |-> TRUE, message |-> "Failed to process message"]

\* C2: once a sendMessage call in which a step threw has settled (no other
\* operation of the session running in between), error holds the thrown
\* value if it is an Error and otherwise a new Error 'Failed to process
\* message'; onError, when supplied, was called once with that same Error
\* and is otherwise not called; isLoading is false; the user message of the
\* call is the last of the transcript, which grew by exactly one message.
C2_ErrorSurfaces ==
    (Settled /\ SettledCall.thrown # None) =>
        /\ error = Some(reported(SettledCall.thrown[1]))
        /\ IF options.onError
           THEN /\ Len(onErrorCalls) = SettledCall.errsBefore + 1
                /\ onErrorCalls[Len(onErrorCalls)] = reported(SettledCall.thrown[1])
           ELSE onErrorCalls = <<>>
        /\ isLoading = FALSE
        /\ Len(messages) = SettledCall.startLen + 1
        /\ messages[Len(messages)].role = "user"
        /\ messages[Len(messages)].content = SettledCall.content

\* A turn in which a value that is not an Error was thrown has settled, and
\* error and the onError call hold the generic Error.
C2_Witness ==
    /\ Settled
    /\ SettledCall.thrown = Some([isError |-> FALSE, message |-> "timeout"])
    /\ options.onError
    /\ error = Some([isError |-> TRUE, message |-> "Failed to process message"])
    /\ onErrorCalls[Len(onErrorCalls)].message = "Failed to process message"
    /\ messages[Len(messages)].role = "user"

\* A user message of the transcript without a reply after it.
Unanswered(i) ==
    /\ messages[i].role = "user"
    /\ (i = Len(messages) \/ messages[i + 1].role = "user")

\* C3 as stated: in a session that started from an empty transcript, the
\* transcript length is even after a completed turn, and odd only while a
\* turn is in flight or when the last turn failed, error being set.
C3_OddOnlyInFlightOrLastFailed ==
    turns.base = 0 =>
        /\ (Settled /\ SettledCall.thrown = None) => Even(Len(messages))
        /\ ~Even(Len(messages)) => (calls # {} \/ error # None)

\* C3: since the transcript was last empty (construction or resetChat with
\* empty initialMessages), calls not overlapping: the transcript length is
\* even after a completed turn if no turn has failed since; it is odd only
\* while a turn is in flight or when a turn has failed since and a user
\* message without a reply is in the transcript, whether or not a later
\* turn succeeded and cleared error.
C3_OddOnlyInFlightOrAfterFailure ==
    turns.base = 0 =>
        /\ (Settled /\ SettledCall.thrown = None /\ ~turns.failed)
                => Even(Len(messages))
        /\ ~Even(Len(messages)) =>
                \/ calls # {}
                \/ /\ turns.failed
                   /\ \E i \in DOMAIN messages : Unanswered(i)

\* A failed turn followed by a successful one: three messages, no turn in
\* flight, error null.
C3_Witness ==
    /\ turns.base = 0
    /\ Settled
    /\ SettledCall.thrown = None
    /\ ~SettledCall.retry
    /\ calls = {}
    /\ error = None
    /\ Len(messages) = 3
    /\ Unanswered(1)

C5_ResetClearsSession ==
    last.op = "resetChat" =>
        /\ messages = options.initialMessages
        /\ error = None
        /\ suggestions = <<>>
        /\ modelOverride = None
        /\ lastMessageRef = ""
        /\ DOMAIN contextRef = {}

\* resetChat was called after two turns of which one failed, in a session
\* with a non-empty initialMessages.
C5_Witness ==
    /\ last.op = "resetChat"
    /\ sends = 2
    /\ Len(onErrorCalls) > 0
    /\ options.initialMessages # <<>>
    /\ messages = options.initialMessages
    /\ lastMessageRef = ""

\* C6: with persistence enabled, once resetChat and the state updates and
\* the persistence effect it triggers have run (the store not failing), the
\* store holds no entry under the key.
C6_StoreEntryAbsentAfterReset ==
    (/\ last.op = "resetChat"
     /\ options.persistMessages
     /\ storeErrors = 0
     /\ ~effectPending) => store = None

\* C7: a new session constructed with persistence enabled on a store that
\* holds a persisted transcript starts with a message list of the same
\* length with equal role, content and category at every position, the
\* timestamps being dates again; the persisted transcript is used in place
\* of initialMessages.
C7_RoundTrip ==
    (/\ last.op = "construct"
     /\ options.persistMessages
     /\ last.call[1].from # None
     /\ ~last.call[1].threw) =>
        LET before == last.call[1].from[1]
            after == last.call[1].value
        IN  /\ last.call[1].loaded
            /\ messages = after
            /\ Len(after) = Len(before)
            /\ \A i \in DOMAIN before :
                /\ after[i].role = before[i].role
                /\ after[i].content = before[i].content
                /\ ("category" \in DOMAIN after[i]) = ("category" \in DOMAIN before[i])
                /\ "category" \in DOMAIN before[i] =>
                        after[i].category = before[i].category
                /\ after[i].timestamp.valid
                /\ after[i].timestamp = before[i].timestamp

\* A second session has loaded a transcript of an exchange that the first
\* one persisted.
C7_Witness ==
    /\ last.op = "construct"
    /\ mounts = 2
    /\ last.call[1].from # None
    /\ last.call[1].loaded
    /\ Len(messages) >= 2
    /\ \E i \in DOMAIN messages :
        /\ "category" \in DOMAIN messages[i]
        /\ messages[i].category = "health"
    /\ messages # options.initialMessages

\* C8: with persistMessages false no operation of the session reads,
\* writes or removes the store entry: the store keeps its content through
\* every sequence of operations, and a session starts with initialMessages
\* whatever the store holds.
C8_NoStoreAccessWithoutPersistence ==
    ~options.persistMessages =>
        /\ storeOps = {}
        /\ store = initialStore
        /\ storeErrors = 0
        /\ last.op = "construct" =>
              /\ last.call[1].value = options.initialMessages
              /\ messages = options.initialMessages

\* A session without persistence on a store that holds a transcript has
\* been constructed a second time, after two turns.
C8_Witness ==
    /\ ~options.persistMessages
    /\ store # None
    /\ last.op = "construct"
    /\ mounts = 2
    /\ sends = 2
    /\ messages = options.initialMessages

\* C9: a step in which the local store fails (getItem, setItem or
\* removeItem throws, or the stored text is not the JSON of an array) sets
\* no error and calls onError not: construction then starts the transcript
\* as initialMessages, the persistence effect leaves the session and its
\* turns in flight as they are, and resetChat completes as without the
\* failure.
C9_StoreFailuresSwallowed ==
    [][storeErrors' > storeErrors =>
        /\ onErrorCalls' = onErrorCalls
        /\ error' # None => error' = error
        /\ calls' = calls \/ (~mounted /\ calls' = {})
        /\ ~mounted => /\ messages' = options.initialMessages
                       /\ error' = None
        /\ (mounted /\ effectPending) =>
                /\ messages' = messages
                /\ isLoading' = isLoading
                /\ error' = error
        /\ (mounted /\ ~effectPending) =>
                /\ last'.op = "resetChat"
                /\ messages' = options.initialMessages
                /\ error' = None
                /\ lastMessageRef' = ""]_vars

\* After a failure of the store a turn has completed with a reply.
C9_Witness ==
    /\ storeErrors > 0
    /\ Settled
    /\ SettledCall.thrown = None
    /\ error = None
    /\ onErrorCalls = <<>>
    /\ messages[Len(messages)].role = "assistant"

promptContext(query) ==
    serviceRef.extractContextFromQuery[<<query, serviceRef.categorizeQuestion[query]>>]

\* C15: every fact the session has extracted since construction or the last
\* resetChat (age, coverage amount, policy type, health status) is part of
\* the context from which the prompt or reply of a completed turn was
\* built, also when the text of that turn does not state it.
C15_ContextCarriedOver ==
    (Settled /\ SettledCall.thrown = None) =>
        \A k \in (DOMAIN contextRef) \ {"category"} :
            /\ k \in DOMAIN promptContext(SettledCall.content)
            /\ promptContext(SettledCall.content)[k] = contextRef[k]

\* No call is suspended and every state update and persistence effect has
\* been processed, in a session that persists.
Quiescent == options.persistMessages /\ mounted /\ calls = {} /\ ~effectPending

\* C18 as stated: with persistence enabled, in every quiescent state reached
\* by sendMessage, retryLastMessage and resetChat calls (the store not
\* failing), the value stored under the key is the serialization of the
\* current message list.
C18_StoreIsSerialization ==
    (Quiescent /\ storeErrors = 0) => store = Some(JSONstringify(messages))

\* C18 as the code has it: with persistence enabled and no local-store call
\* failing, in every quiescent state the value stored under the key is the
\* serialization of the current message list, or there is no entry under
\* the key: resetChat removed it and the message list, being the initial one
\* already, did not change, so that no persistence effect ran after it.
C18_StoreIsSerializationOrRemoved ==
    (Quiescent /\ storeErrors = 0) =>
        \/ store = Some(JSONstringify(messages))
        \/ /\ store = None
           /\ "removeItem" \in storeOps
           /\ messages = options.initialMessages

\* A turn has settled after an earlier resetChat, its effect has run, and
\* the store holds the serialization of the transcript with the turn's
\* messages.
C18_Witness ==
    /\ Quiescent
    /\ storeErrors = 0
    /\ Settled
    /\ "removeItem" \in storeOps
    /\ Len(messages) >= 2
    /\ messages[Len(messages)].role = "assistant"
    /\ store = Some(JSONstringify(messages))

\* What a step does when a sendMessage call starts or a call ends. A call
\* that starts is suspended at categorizeQuestion with the loading flag
\* set, the error cleared, its user message appended and the context as it
\* was. A call ends from processQuery when nothing was thrown, and then the
\* appended assistant message carries the reply and the follow-ups; a call
\* that ends with a throw leaves the transcript alone; either way the
\* loading flag is false afterwards. No other step of a session appends an
\* assistant message or takes the loading flag down.
orderedStep ==
    LET started == {c \in calls' : c.id \notin {d.id : d \in calls} /\ ~c.retry}
        ended == {c \in calls : c.id \notin {d.id : d \in calls'}}
        appended == messages'[Len(messages')]
    IN  /\ \A c \in started :
                /\ c.pc = "categorizeQuestion"
                /\ c.category = ""
                /\ isLoading'
                /\ error' = None
                /\ Len(messages') = Len(messages) + 1
                /\ SubSeq(messages', 1, Len(messages)) = messages
                /\ appended.role = "user"
                /\ appended.content = c.content
                /\ contextRef' = contextRef
        /\ \A c \in ended :
                /\ ~isLoading'
                /\ IF last'.call[1].thrown = None
                   THEN /\ c.pc = "processQuery"
                        /\ Len(messages') = Len(messages) + 1
                        /\ appended.role = "assistant"
                        /\ appended.category = c.category
                        /\ appended.suggestions =
                             serviceRef.generateFollowUpQuestions[<<c.category, c.content>>]
                        /\ \E llm \in LLMOutcomes(c.override, config) :
                                appended.content =
                                    serviceRef.processQuery[<<c.content, c.override,
                                                              config, llm>>]
                   ELSE messages' = messages
        /\ (/\ mounted
            /\ Len(messages') > Len(messages)
            /\ appended.role = "assistant") => ended # {}
        /\ (isLoading /\ ~isLoading') => ended # {}

\* C19: within each sendMessage call the steps are ordered: the loading
\* flag is set, the prior error cleared and the user message appended before
\* categorization, context extraction or the model call start; the assistant
\* message is appended only after the reply and the follow-ups are produced;
\* the loading flag is taken down last, on success and on failure, and not
\* while the call is suspended.
C19_StepsOrdered ==
    /\ [][orderedStep]_vars
    /\ [](\A c \in calls :
            ~c.retry =>
                /\ isLoading
                /\ Len(messages) = c.startLen + 1
                /\ messages[Len(messages)].role = "user"
                /\ messages[Len(messages)].content = c.content
                /\ (c.pc = "categorizeQuestion" => c.category = ""))

\* A sendMessage call whose processQuery threw has ended: the loading flag
\* is down, the transcript ends with the call's user message.
C19_Witness ==
    /\ Settled
    /\ ~SettledCall.retry
    /\ SettledCall.thrown # None
    /\ ~isLoading
    /\ Len(messages) = SettledCall.startLen + 1
    /\ messages[Len(messages)].content = SettledCall.content
    /\ contextRef # <<>>

(***************************************************************************)
(* categorizeQuestion applied on its own                                   *)
(***************************************************************************)

\* Fragments a text is built from.
MaxFragments == 3

\* The fragments, each with the keyword groups it contains: whole keywords,
\* keywords in capitals, and keywords inside longer words ("exam" in
\* "Example", "file" in "Profile", "term" in "Determine"). Every fragment
\* starts with a space, so that joining two of them creates no keyword that
\* neither contains.
Fragments ==
    {[text |-> " Diabetes", kinds |-> {"health"}],
     [text |-> " an Example", kinds |-> {"health"}],
     [text |-> " claim", kinds |-> {"claims"}],
     [text |-> " my Profile", kinds |-> {"claims"}],
     [text |-> " POLICY", kinds |-> {"policy"}],
     [text |-> " Determine", kinds |-> {"policy"}],
     [text |-> " the medical exam for my coverage", kinds |-> {"health", "policy"}],
     [text |-> " File a Term Life claim", kinds |-> {"claims", "policy"}],
     [text |-> " hello there", kinds |-> {}]}

InitCat ==
    /\ HookInit
    /\ chat = NoChat
    /\ cache = NoCache
    /\ options = [persistMessages |-> TRUE, onError |-> TRUE,
                  initialMessages |-> <<>>, stableInitial |-> FALSE]
    /\ config = [useAI |-> None]
    /\ store = None
    /\ arg = NoText
    /\ ret = None

\* One more fragment is added to the text.
TypeFragment(f) ==
    /\ arg.fragments < MaxFragments
    /\ arg' = [text |-> arg.text \o f.text, kinds |-> arg.kinds \cup f.kinds,
               fragments |-> arg.fragments + 1]
    /\ ret' = None
    /\ UNCHANGED <<hookVars, chat, cache>>

\* The service categorizes the text.
Categorize ==
    /\ ret = None
    /\ ret' = Some([question |-> arg.text, kinds |-> arg.kinds,
                    category |-> categorizeQuestion(arg.text)])
    /\ UNCHANGED <<arg, hookVars, chat, cache>>

NextCat == (\E f \in Fragments : TypeFragment(f)) \/ Categorize

SpecCat == InitCat /\ [][NextCat]_vars

\* The category the keyword groups of a text call for.
expectedCategory(kinds) ==
    IF "health" \in kinds THEN "health"
    ELSE IF "claims" \in kinds THEN "claims"
    ELSE IF "policy" \in kinds THEN "policy"
    ELSE "basic"

\* C10: categorizeQuestion returns one of health, claims, policy and basic,
\* and it is 'health' for every text with a health keyword, else 'claims' for
\* every text with a claims keyword, else 'policy' for every text with a
\* policy keyword, else 'basic'; keywords count in any letter case and inside
\* longer words.
C10_CategoryPriority ==
    ret # None =>
        /\ ret[1].category \in Categories
        /\ ret[1].category = expectedCategory(ret[1].kinds)

\* A text with keywords of all three groups was categorized as health.
C10_Witness ==
    /\ ret # None
    /\ ret[1].kinds = {"health", "claims", "policy"}
    /\ ret[1].category = "health"

(***************************************************************************)
(* extractContextFromQuery applied on its own                              *)
(***************************************************************************)

\* The parts a query is built from, each with what it states: a policy
\* type, an amount in one of the three suffixed forms (amount), an amount
\* in plain digits (plain), an age. Every part after the opening ones
\* starts with a space or a comma, so that joining parts creates no amount,
\* age or policy type that no part states.
QueryParts ==
    {[text |-> "I want a", policy |-> None, amount |-> None, plain |-> None,
      age |-> None],
     [text |-> "I am 40 years old and need", policy |-> None, amount |-> None,
      plain |-> None, age |-> Some(40)],
     [text |-> " $500,000", policy |-> None, amount |-> None,
      plain |-> Some(500000), age |-> None],
     [text |-> " term life policy", policy |-> Some("term"), amount |-> None,
      plain |-> None, age |-> None],
     [text |-> " Whole Life cover", policy |-> Some("whole"), amount |-> None,
      plain |-> None, age |-> None],
     [text |-> " $1M", policy |-> None, amount |-> Some(1000000), plain |-> None,
      age |-> None],
     [text |-> " $250k", policy |-> None, amount |-> Some(250000), plain |-> None,
      age |-> None],
     [text |-> " 1,500 thousand dollars", policy |-> None, amount |-> Some(1500000),
      plain |-> None, age |-> None],
     [text |-> " 2 million dollars", policy |-> None, amount |-> Some(2000000),
      plain |-> None, age |-> None],
     [text |-> " in coverage", policy |-> None, amount |-> None, plain |-> None,
      age |-> None],
     [text |-> ", not a million", policy |-> None, amount |-> None, plain |-> None,
      age |-> None]}

NoQuery == [text |-> "", parts |-> <<>>]

InitExtract ==
    /\ HookInit
    /\ chat = NoChat
    /\ cache = NoCache
    /\ options = [persistMessages |-> TRUE, onError |-> TRUE,
                  initialMessages |-> <<>>, stableInitial |-> FALSE]
    /\ config = [useAI |-> None]
    /\ store = None
    /\ arg = NoQuery
    /\ ret = None

\* One more part is added to the query.
TypeQueryPart(p) ==
    /\ Len(arg.parts) < MaxFragments
    /\ arg' = [text |-> arg.text \o p.text, parts |-> Append(arg.parts, p)]
    /\ ret' = None
    /\ UNCHANGED <<hookVars, chat, cache>>

\* processQuery's first two steps on the query: the context extracted under
\* the category the query is given.
ExtractContext ==
    /\ ret = None
    /\ ret' = Some([query |-> arg.text, parts |-> arg.parts,
                    context |-> extractContextFromQuery(arg.text,
                                    categorizeQuestion(arg.text))])
    /\ UNCHANGED <<arg, hookVars, chat, cache>>

NextExtract == (\E p \in QueryParts : TypeQueryPart(p)) \/ ExtractContext

SpecExtract == InitExtract /\ [][NextExtract]_vars

\* What the parts of a query state under key, in the order of the parts.
stated(parts, key) ==
    SelectSeq([i \in DOMAIN parts |-> parts[i][key]], LAMBDA v : v # None)

\* C11: for a query that names a policy type and a dollar amount in plain
\* digits with thousands separators (and no amount with a suffix), the
\* extracted context has that policy type and that amount; so 'I want a
\* $500,000 term life policy' gives policyType 'term' and coverageAmount
\* 500000.
C11_PlainAmountAndPolicyType ==
    (/\ ret # None
     /\ Len(stated(ret[1].parts, "policy")) = 1
     /\ Len(stated(ret[1].parts, "plain")) = 1
     /\ stated(ret[1].parts, "amount") = <<>>) =>
        /\ "policyType" \in DOMAIN ret[1].context
        /\ ret[1].context.policyType = stated(ret[1].parts, "policy")[1][1]
        /\ "coverageAmount" \in DOMAIN ret[1].context
        /\ ret[1].context.coverageAmount = stated(ret[1].parts, "plain")[1][1]

\* C12: the extracted coverageAmount is the amount of the first suffixed
\* form in the query, N x 1,000 or N x 1,000,000 by the matched form alone,
\* whatever else the query contains; the field is absent when the query has
\* no such form; an age stated in the query is extracted next to it.
C12_AmountOfFirstMatch ==
    ret # None =>
        /\ IF stated(ret[1].parts, "amount") = <<>>
           THEN "coverageAmount" \notin DOMAIN ret[1].context
           ELSE /\ "coverageAmount" \in DOMAIN ret[1].context
                /\ ret[1].context.coverageAmount = stated(ret[1].parts, "amount")[1][1]
        /\ stated(ret[1].parts, "age") # <<>> =>
                /\ "age" \in DOMAIN ret[1].context
                /\ ret[1].context.age = stated(ret[1].parts, "age")[1][1]

(***************************************************************************)
(* generateFollowUpQuestions applied on its own                            *)
(***************************************************************************)

\* The parts a query is built from, each with the index of the
\* knowledge-base entry whose term it contains (0: none), in capitals and
\* inside longer words as well; " term life" is no term of the knowledge
\* base. Every part starts with a space.
TopicParts ==
    {[text |-> " Term Life Insurance", entry |-> 1],
     [text |-> " a Pre-Existing Condition", entry |-> 5],
     [text |-> " my premiums", entry |-> 6],
     [text |-> " Death Benefit", entry |-> 7],
     [text |-> " term life", entry |-> 0],
     [text |-> " hello there", entry |-> 0]}

NoTopics == [text |-> "", named |-> {}, fragments |-> 0]

InitFollowUp ==
    /\ HookInit
    /\ chat = NoChat
    /\ cache = NoCache
    /\ options = [persistMessages |-> TRUE, onError |-> TRUE,
                  initialMessages |-> <<>>, stableInitial |-> FALSE]
    /\ config = [useAI |-> None]
    /\ store = None
    /\ arg = NoTopics
    /\ ret = None

\* One more part is added to the query.
TypeTopicPart(p) ==
    /\ arg.fragments < MaxFragments
    /\ arg' = [text |-> arg.text \o p.text,
               named |-> arg.named \cup ({p.entry} \ {0}),
               fragments |-> arg.fragments + 1]
    /\ ret' = None
    /\ UNCHANGED <<hookVars, chat, cache>>

\* generateFollowUpQuestions is called with a category and the query, or
\* with a category and undefined.
GenerateFollowUps ==
    /\ ret = None
    /\ \E category \in Categories, defined \in BOOLEAN :
        ret' = Some([query |-> arg.text, named |-> arg.named,
                     category |-> category, defined |-> defined,
                     questions |-> generateFollowUpQuestionsOn(category,
                                     IF defined THEN Some(arg.text) ELSE None)])
    /\ UNCHANGED <<arg, hookVars, chat, cache>>

NextFollowUp == (\E p \in TopicParts : TypeTopicPart(p)) \/ GenerateFollowUps

SpecFollowUp == InitFollowUp /\ [][NextFollowUp]_vars

\* The least element of a non-empty set of numbers.
Least(S) == CHOOSE n \in S : \A m \in S : n <= m

ChatOptions ==
    [persistMessages |-> TRUE, onError |-> TRUE,
     initialMessages |-> <<>>, stableInitial |-> FALSE]

InitChat ==
    /\ HookInit
    /\ options = ChatOptions
    /\ config = [useAI |-> None]
    /\ arg = NoText
    /\ ret = None
    /\ chat = NoChat
    /\ cache = NoCache

\* The component's sendMessage(content), called by BaseChat with the text
\* submitted, up to its await of middleware.processMessage(content). The
\* response the middleware resolves with depends on the text alone and is
\* recorded here; sends tells whether rawSendMessage was called since.
ChatSendMessage(content) ==
    /\ mounted
    /\ chat.stage = "idle"
    /\ calls = {}
    /\ sends < MaxSends
    /\ chat' = [chat EXCEPT !.stage = "sendMessage",
                            !.content = content,
                            !.response = Some(middleware.processMessage[content]),
                            !.sends = sends]
    /\ UNCHANGED <<hookVars, pureVars, cache>>

\* middleware.processMessage has resolved: rawSendMessage(response.message),
\* up to its first await.
AfterProcessMessage ==
    /\ chat.stage = "sendMessage"
    /\ sends = chat.sends
    /\ SendMessage(chat.response[1].message)

\* rawSendMessage has resolved (it never rejects): the suggestions of the
\* middleware's response are shown.
AfterRawSendMessage ==
    /\ chat.stage = "sendMessage"
    /\ sends > chat.sends
    /\ calls = {}
    /\ chat' = [chat EXCEPT !.stage = "idle",
                            !.suggestions = chat.response[1].suggestions]
    /\ UNCHANGED <<hookVars, pureVars, cache>>

\* The component is rendered once; its user submits a text or resets the
\* chat (onReset is resetChat) while no submission is under way.
NextChat ==
    \/ Construct
    \/ \E content \in Queries : ChatSendMessage(content)
    \/ (chat.stage = "idle" /\ calls = {} /\ ResetChat)
    \/ AfterProcessMessage
    \/ AfterRawSendMessage
    \/ PersistEffect
    \/ \E c \in calls : AfterCategorize(c)
    \/ \E c \in calls : AfterProcess(c)

SpecChat == InitChat /\ [][NextChat]_vars

\* C16: when the user submits text through the InsuranceChat component, the
\* hook's sendMessage is called with exactly the submitted text, and the
\* user message recorded in the transcript has that text.
C16_SubmittedTextIsSent ==
    (chat.stage = "sendMessage" /\ sends > chat.sends) =>
        /\ lastMessageRef = chat.content
        /\ lastUserIndex(messages) > 0
        /\ messages[lastUserIndex(messages)].content = chat.content

(***************************************************************************)
(* Overlapping sendMessage calls                                           *)
(***************************************************************************)

\* One session on an empty store whose user calls sendMessage again while
\* earlier calls are suspended (up to MaxInFlight of them).
InitOverlap ==
    /\ HookInit
    /\ options = ChatOptions
    /\ store = None
    /\ arg = NoText
    /\ ret = None
    /\ chat = NoChat
    /\ cache = NoCache

NextOverlap ==
    \/ Construct
    \/ \E content \in Queries : SendMessage(content)
    \/ PersistEffect
    \/ \E c \in calls : AfterCategorize(c)
    \/ \E c \in calls : AfterProcess(c)

SpecOverlap == InitOverlap /\ [][NextOverlap]_vars

callIds(cs) == {c.id : c \in cs}

\* What one step does to the transcript: a call that starts appends its user
\* message, a call that ends without a throw appends the reply to its own
\* query with the category of that query, and nothing else changes it.
transcriptStep ==
    LET started == {c \in calls' : c.id \notin callIds(calls)}
        ended == {c \in calls : c.id \notin callIds(calls')}
        answered == {c \in ended : last'.call[1].thrown = None}
        appended == messages'[Len(messages')]
    IN  /\ Len(messages') >= Len(messages)
        /\ SubSeq(messages', 1, Len(messages)) = messages
        /\ Len(messages') = Len(messages) + Cardinality(started) + Cardinality(answered)
        /\ \A c \in started :
                appended.role = "user" /\ appended.content = c.content
        /\ \A c \in answered :
                /\ appended.role = "assistant"
                /\ appended.category = serviceRef.categorizeQuestion[c.content]
                /\ \E llm \in LLMOutcomes(c.override, config) :
                        /\ llm.kind = last'.call[1].llm
                        /\ appended.content =
                             serviceRef.processQuery[<<c.content, c.override, config, llm>>]

\* C17: when sendMessage calls overlap and all succeed, then in every
\* interleaving each call appends its user message when it starts and the
\* reply to its own query, with that query's category, when it ends, no
\* step removes or rewrites a message, and once n calls have all ended the
\* transcript has exactly 2n messages, n of the user and n of the assistant.
C17_OverlappingSendsKeepAllMessages ==
    /\ [][transcriptStep]_vars
    /\ [](  (mounted /\ calls = {} /\ ~turns.failed) =>
                /\ Len(messages) = 2 * sends
                /\ Cardinality({i \in DOMAIN messages : messages[i].role = "user"}) = sends
                /\ Cardinality({i \in DOMAIN messages : messages[i].role = "assistant"})
                        = sends)

\* Two calls overlapped and the second ended first: both user messages,
\* then the reply to the second query, then the reply to the first.
C17_Witness ==
    /\ calls = {}
    /\ ~turns.failed
    /\ Len(messages) = 4
    /\ messages[1].role = "user" /\ messages[2].role = "user"
    /\ messages[1].content # messages[2].content
    /\ messages[3].role = "assistant"
    /\ messages[3].category = serviceRef.categorizeQuestion[messages[2].content]
    /\ messages[4].role = "assistant"
    /\ messages[4].category = serviceRef.categorizeQuestion[messages[1].content]
    /\ messages[3].category # messages[4].category

(***************************************************************************)
(* A model call that never returns                                         *)
(***************************************************************************)

\* model.complete of processQuery returns a promise that never settles: the
\* call stays suspended in processQuery for good (neither the service nor
\* the session sets a timeout or cancels).
ModelHangs_loadingCleared(c) ==
    /\ c \in calls
    /\ c.pc = "processQuery"
    /\ usesAI(c.override, config)
    /\ calls' = (calls \ {c}) \cup {[c EXCEPT !.pc = "hung"]}
    /\ isLoading' = FALSE
    /\ UNCHANGED <<mounted, options, config, messages, error, suggestions,
                   modelOverride, lastMessageRef, contextRef, messagesIsInitial,
                   effectPending, store, clock, sends, mounts, onErrorCalls, storeOps,
                   storeErrors, initialStore, persisted, turns, last, pureVars, chat, cache>>

ModelHangs(c) ==
    /\ c \in calls
    /\ c.pc = "processQuery"
    /\ usesAI(c.override, config)
    /\ calls' = (calls \ {c}) \cup {[c EXCEPT !.pc = "hung"]}
    /\ UNCHANGED <<mounted, options, config, messages, isLoading, error, suggestions,
                   modelOverride, lastMessageRef, contextRef, messagesIsInitial,
                   effectPending, store, clock, sends, mounts, onErrorCalls, storeOps,
                   storeErrors, initialStore, persisted, turns, last, pureVars, chat, cache>>

hung == \E c \in calls : c.pc = "hung"

InitLive ==
    /\ HookInit
    /\ options = ChatOptions
    /\ store = None
    /\ arg = NoText
    /\ ret = None
    /\ chat = NoChat
    /\ cache = NoCache

\* The user sends one message at a time and may reset the chat, also while
\* a call hangs.
NextLive ==
    \/ (calls = {} /\ Construct)
    \/ (calls = {} /\ \E content \in Queries : SendMessage(content))
    \/ ((calls = {} \/ hung) /\ ResetChat)
    \/ PersistEffect
    \/ \E c \in calls : AfterCategorize(c)
    \/ \E c \in calls : AfterProcess(c)
    \/ \E c \in calls : ModelHangs(c)

\* The event loop runs every pending effect and every continuation of a
\* settled promise; whether the model call returns is up to the model.
FairnessLive ==
    /\ WF_vars(PersistEffect)
    /\ WF_vars(\E c \in calls : AfterCategorize(c))
    /\ WF_vars(\E c \in calls : AfterProcess(c))

SpecLive == InitLive /\ [][NextLive]_vars /\ FairnessLive

AIResponses ==
    {"Term life insurance covers you for a fixed period.",
     "",
     "COVERAGE FOR A SPECIFIC PERIOD, TYPICALLY 10-30 YEARS, is what you get.",
     "As a rule: " \o entries[1].definition,
     "THE AMOUNT OF MONEY PAID TO BENEFICIARIES UPON THE INSURED PERSON'S DEATH, WHICH IS GENERALLY INCOME TAX-FREE."}

\* processQuery from the completion on: the reply of the model is enhanced
\* for the query, under the category and the context taken from the query.
EnhanceResponse ==
    /\ ret = None
    /\ \E aiResponse \in AIResponses, category \in {categorizeQuestion(arg.text)} :
        \E context \in {extractContextFromQuery(arg.text, category)} :
            ret' = Some([query |-> arg.text, named |-> arg.named,
                         reply |-> aiResponse, context |-> context,
                         result |-> enhanceResponseWithKnowledgeBase(
                                        aiResponse, arg.text, context, category)])
    /\ UNCHANGED <<arg, hookVars, chat, cache>>

NextEnhance == (\E p \in TopicParts : TypeTopicPart(p)) \/ EnhanceResponse

SpecEnhance == InitFollowUp /\ [][NextEnhance]_vars

additionalInformation == "\n\nAdditional information: "

\* C21: the enhancement step returns the model's reply unchanged when the
\* knowledge base has no entry relevant to the query; it appends text only
\* when it has knowledge-base or policy-type information, and then one
\* 'Additional information' section with information that the reply does
\* not contain already (letter case aside); the reply is always a prefix of
\* the result.
C21_EnhancementAppendsKnownInformation ==
    ret # None =>
        LET reply == ret[1].reply
            result == ret[1].result
            \* the empty query is part of every term
            relevant == IF ret[1].query = "" THEN {1} ELSE ret[1].named
            known == {entries[i].definition : i \in relevant}
                        \cup {policyTypes[i].description : i \in DOMAIN policyTypes}
        IN  /\ Len(result) >= Len(reply)
            /\ SubSeq(result, 1, Len(reply)) = reply
            /\ relevant = {} => result = reply
            /\ result # reply =>
                    \E info \in known :
                        /\ result = reply \o additionalInformation \o info
                        /\ ~includes(toLowerCase(reply), toLowerCase(info))

\* The description of the policy type that context extraction calls t.
describedPolicy(t) ==
    policyTypes[CHOOSE i \in DOMAIN policyTypes :
                    toLowerCase(policyTypes[i].name) = t \o " life insurance"].description

\* C22: when context extraction found a policy type in the query and the
\* model's reply does not contain that policy type's description, the
\* enhancement step appends that policy type's description, in preference
\* to the generic knowledge-base text.
C22_PolicyDescriptionPreferred ==
    (/\ ret # None
     /\ "policyType" \in DOMAIN ret[1].context
     /\ ret[1].context.policyType \in {"term", "whole"}
     /\ ~includes(toLowerCase(ret[1].reply),
                  toLowerCase(describedPolicy(ret[1].context.policyType)))) =>
        ret[1].result = ret[1].reply \o additionalInformation
                            \o describedPolicy(ret[1].context.policyType)

(***************************************************************************)
(* calculateConfidence applied on its own                                  *)
(***************************************************************************)

\* The parts a response text is built from, each with what it contains: the
\* fallback phrase, an apology or trouble phrase, and which of the six
\* detail markers (by index). Every part starts with a space, the phrases
\* and markers are matched with their letter case, and a marker counts
\* inside a longer word.
ResponseParts ==
    {[text |-> " I don't have specific information about that.",
      fallback |-> TRUE, apology |-> FALSE, markers |-> {}],
     [text |-> " I apologize for the delay.",
      fallback |-> FALSE, apology |-> TRUE, markers |-> {}],
     [text |-> " I'm having trouble with this.",
      fallback |-> FALSE, apology |-> TRUE, markers |-> {}],
     [text |-> " i apologize, I Don't Have Specific Information",
      fallback |-> FALSE, apology |-> FALSE, markers |-> {}],
     [text |-> " The plan pays out.",
      fallback |-> FALSE, apology |-> FALSE, markers |-> {}],
     [text |-> " Its features and benefits differ.",
      fallback |-> FALSE, apology |-> FALSE, markers |-> {1, 2}],
     [text |-> " Your coverage lasts.",
      fallback |-> FALSE, apology |-> FALSE, markers |-> {3}],
     [text |-> " The policy premium follows underwriting.",
      fallback |-> FALSE, apology |-> FALSE, markers |-> {4, 5, 6}],
     [text |-> " Premium and Policy.",
      fallback |-> FALSE, apology |-> FALSE, markers |-> {}],
     [text |-> " A death benefit.",
      fallback |-> FALSE, apology |-> FALSE, markers |-> {2}]}

\* formatResponse's call of calculateConfidence on the response text.
CalculateConfidence ==
    /\ ret = None
    /\ ret' = Some([response |-> arg.text, parts |-> arg.parts,
                    confidence |-> calculateConfidence(arg.text)])
    /\ UNCHANGED <<arg, hookVars, chat, cache>>

NextConfidence == (\E p \in ResponseParts : TypeQueryPart(p)) \/ CalculateConfidence

SpecConfidence == InitExtract /\ [][NextConfidence]_vars

\* C23: the confidence of a response text is 0.5 if the text contains the
\* no-specific-information fallback phrase; otherwise 0.3 if it contains an
\* apology or trouble phrase; otherwise min(0.7 + 0.05 n, 0.95) for n the
\* number of the six detail keywords present; so a response without
\* fallback or apology text gets a confidence between 0.7 and 0.95
\* (confidences are in hundredths).
C23_ConfidenceByContent ==
    ret # None =>
        LET parts == ret[1].parts
            n == Cardinality(UNION {parts[i].markers : i \in DOMAIN parts})
        IN  IF \E i \in DOMAIN parts : parts[i].fallback
            THEN ret[1].confidence = 50
            ELSE IF \E i \in DOMAIN parts : parts[i].apology
            THEN ret[1].confidence = 30
            ELSE /\ ret[1].confidence = IF 70 + 5 * n < 95 THEN 70 + 5 * n ELSE 95
                 /\ ret[1].confidence >= 70
                 /\ ret[1].confidence <= 95

\* The confidence was computed for a text with an apology and the fallback
\* phrase after it, and for a text with all six detail keywords.
C23_Witness ==
    /\ ret # None
    /\ \/ /\ Len(ret[1].parts) = 2
          /\ ret[1].parts[1].apology
          /\ ret[1].parts[2].fallback
          /\ ret[1].confidence = 50
       \/ /\ UNION {ret[1].parts[i].markers : i \in DOMAIN ret[1].parts} = 1..6
          /\ ret[1].confidence = 95

(***************************************************************************)
(* generateResponse applied on its own                                     *)
(***************************************************************************)

\* The earlier messages of a conversation, each with what it contains: a
\* back-reference word (as a substring of the lower-cased message) and the
\* knowledge-base terms it names, in the order of the knowledge base.
PreviousMessageParts ==
    {[text |-> "What is a premium?", reference |-> FALSE, terms |-> <<"premium">>],
     [text |-> "Tell me more about that.", reference |-> TRUE, terms |-> <<>>],
     [text |-> "How does it change the death benefit?", reference |-> TRUE,
      terms |-> <<"death benefit">>],
     [text |-> "Hello", reference |-> FALSE, terms |-> <<>>],
     [text |-> "Is THAT Term Life Insurance?", reference |-> TRUE,
      terms |-> <<"term life insurance">>]}

\* One query for every label of analyzeIntent, and the empty query.
UserQueries ==
    {"What is term life insurance?", "What is a premium?", "How much coverage?",
     "Do I need a medical exam?", "How do I file a claim?", "Hello", ""}

\* The userData of a ResponseContext: absent fields, a policy type under
\* the name the knowledge base has, one under the word the service
\* extracts and a zero amount.
UserDatas ==
    << [category |-> "policy"],
       [policyType |-> "Term Life Insurance", coverageAmount |-> 500000],
       [category |-> "health", policyType |-> "term", coverageAmount |-> 0] >>

\* generateResponse on a query, with the messages typed so far as
\* previousMessages (absent or empty when none was typed).
GenerateResponse ==
    /\ ret = None
    /\ \E userQuery \in UserQueries, u \in DOMAIN UserDatas,
          previousMessages \in IF arg.parts = <<>> THEN {None, Some(<<>>)}
                               ELSE {Some([i \in DOMAIN arg.parts |-> arg.parts[i].text])} :
            ret' = Some([userQuery |-> userQuery, userData |-> u,
                         history |-> arg.parts,
                         previousMessages |-> previousMessages,
                         result |-> generateResponse(
                             [userQuery |-> userQuery,
                              previousMessages |-> previousMessages,
                              userData |-> UserDatas[u]])])
    /\ UNCHANGED <<arg, hookVars, chat, cache>>

NextGenerate == (\E p \in PreviousMessageParts : TypeQueryPart(p)) \/ GenerateResponse

SpecGenerate == InitExtract /\ [][NextGenerate]_vars

\* The last two of the earlier messages.
lastTwo(history) ==
    SubSeq(history, IF Len(history) > 2 THEN Len(history) - 1 ELSE 1, Len(history))

\* The message generateResponse gives for the same query and userData
\* without earlier messages.
normalResponse ==
    generateResponse([userQuery |-> ret[1].userQuery, previousMessages |-> None,
                      userData |-> UserDatas[ret[1].userData]]).message

\* C24: when generateResponse is given previousMessages whose last two
\* entries contain a back-reference word and name a known term, the message
\* returned is the normal response prefixed with 'Regarding {term}, ' for
\* the first such term, unless the response already names that term; it is
\* not the error response.
C24_BackReferencePrefixesTerm ==
    ret # None =>
        LET recent == lastTwo(ret[1].history)
            naming == {i \in DOMAIN recent : recent[i].terms # <<>>}
        IN  (/\ \E i \in DOMAIN recent : recent[i].reference
             /\ naming # {})
            => LET term == recent[CHOOSE i \in naming : \A j \in naming : i <= j].terms[1]
               IN  /\ ret[1].result.message # generateErrorResponse.message
                   /\ ret[1].result.message =
                        IF includes(toLowerCase(normalResponse), term)
                        THEN normalResponse
                        ELSE "Regarding " \o term \o ", " \o normalResponse

\* C28: for every query and userData, generateResponse returns a confidence
\* of exactly 0.5 or exactly 1: every result that is not the error response
\* is the no-specific-information fallback text with confidence 0.5, the
\* error response has confidence 1, and no input yields a confidence from
\* 0.7 to 0.95 (confidences are in hundredths).
C28_ConfidenceHalfOrOne ==
    ret # None =>
        /\ ret[1].result.confidence \in {50, 100}
        /\ ~(ret[1].result.confidence \in 70..95)
        /\ IF ret[1].result.message = generateErrorResponse.message
           THEN ret[1].result.confidence = 100
           ELSE /\ ret[1].result.confidence = 50
                /\ includes(ret[1].result.message,
                            "I don't have specific information about \""
                                \o analyzeIntent(ret[1].userQuery) \o "\"")

\* A query naming a knowledge-base term, with a policy type and an amount
\* in userData, got the fallback text with confidence 0.5.
C28_Witness ==
    /\ ret # None
    /\ ret[1].userQuery = "What is a premium?"
    /\ ret[1].userData = 2
    /\ ret[1].previousMessages = None
    /\ ret[1].result.confidence = 50

(***************************************************************************)
(* resetChat and retryLastMessage called while a turn is in flight         *)
(***************************************************************************)

\* The reset button is not disabled while loading, and the hook's functions
\* can be called at any time: every interleaving of the three calls with
\* the continuations of the turns in flight.
NextRace ==
    \/ Construct
    \/ \E content \in Queries : SendMessage(content)
    \/ ResetChat
    \/ RetryLastMessage
    \/ PersistEffect
    \/ \E c \in calls : AfterCategorize(c)
    \/ \E c \in calls : AfterProcess(c)

SpecRace == InitOverlap /\ [][NextRace]_vars

\* C25: isLoading is true in every state in which at least one sendMessage
\* call has started and not yet settled, also when several calls overlap.
C25_LoadingWhileAnyCallInFlight ==
    (mounted /\ calls # {}) => isLoading

\* C26: if resetChat is called while a sendMessage call is in flight, the
\* reply of that call is not appended afterwards: when the call has settled
\* the transcript is initialMessages and the suggestion list is empty. Only
\* resetChat shortens the transcript below the user message of a call in
\* flight, so a call that ends with fewer messages than its own two was
\* reset over.
C26_ResetDropsStaleReply ==
    (/\ Settled
     /\ SettledCall.thrown = None
     /\ Len(messages) < SettledCall.startLen + 2)
    => /\ messages = options.initialMessages
       /\ suggestions = <<>>

\* C27: in every reachable state every assistant message of the transcript
\* is immediately preceded by the user message it answers (it is never
\* first and never follows another assistant message or the user message of
\* another turn), for every interleaving of sendMessage, retryLastMessage
\* and resetChat.
C27_ReplyFollowsItsQuery ==
    \A i \in DOMAIN messages :
        messages[i].role = "assistant" =>
            /\ i > 1
            /\ messages[i - 1].role = "user"
            /\ messages[i].category =
                    serviceRef.categorizeQuestion[messages[i - 1].content]

(***************************************************************************)
(* CacheService over MemoryStorage                                         *)
(***************************************************************************)

\* Clock advances and getOrSet calls considered.
MaxTicks == 3
MaxGetOrSet == 2

CacheKeys == {"quote", "rates"}
CacheValues == {"v1", "v2"}
\* The ttl argument in seconds: omitted, 0 or a number of seconds.
TTLs == {None, Some(0), Some(1)}

\* prefix is options.prefix || 'insurance:', with no prefix option given.
getKey(key) == "insurance:" \o key

\* MemoryStorage.get that returns an entry whatever its expiry.
MemoryStorageGet_neverExpires(map, key, now) ==
    IF key \notin DOMAIN map THEN [value |-> None, store |-> map]
    ELSE [value |-> Some(map[key].value), store |-> map]

\* MemoryStorage.get: [value |-> None for null or Some(the value), store |->
\* the map afterwards]. expiry is None for undefined, and 0 is falsy.
MemoryStorageGet(map, key, now) ==
    IF key \notin DOMAIN map THEN [value |-> None, store |-> map]
    ELSE LET item == map[key]
         IN  IF item.expiry # None /\ item.expiry[1] # 0 /\ item.expiry[1] < now
             THEN [value |-> None, store |-> [k \in DOMAIN map \ {key} |-> map[k]]]
             ELSE [value |-> Some(item.value), store |-> map]

\* MemoryStorage.set: the map afterwards.
MemoryStorageSet(map, key, value, ttl, now) ==
    (key :> [value |-> value,
             expiry |-> IF ttl # None /\ ttl[1] # 0
                        THEN Some(now + ttl[1] * 1000) ELSE None])
        @@ map

\* ttl || this.defaultTTL
orDefault(ttl, defaultTTL) ==
    IF ttl # None /\ ttl[1] # 0 THEN ttl ELSE Some(defaultTTL)

\* new CacheService(config, logger, options) with memory storage, for
\* options.ttl absent, 0 or 2: defaultTTL is options.ttl || 3600.
InitCache ==
    /\ HookInit
    /\ chat = NoChat
    /\ options = ChatOptions
    /\ config = [useAI |-> None]
    /\ store = None
    /\ arg = NoQuery
    /\ ret = None
    /\ \E ttl \in {None, Some(0), Some(2)} :
         cache = [NoCache EXCEPT
                    !.now = 1000,
                    !.defaultTTL = orDefault(ttl, 3600)[1],
                    !.written = [k \in CacheKeys |-> None]]

\* CacheService.get(key): the lookup happens in the call itself.
CacheGet(key) ==
    /\ LET r == MemoryStorageGet(cache.store, getKey(key), cache.now)
       IN  cache' = [cache EXCEPT !.store = r.store,
                                  !.last = [op |-> "get", key |-> key,
                                            result |-> r.value]]
    /\ UNCHANGED <<hookVars, pureVars, chat>>

\* CacheService.set(key, value, ttl)
CacheSet(key, value, ttl) ==
    /\ cache' = [cache EXCEPT
                    !.store = MemoryStorageSet(cache.store, getKey(key), value,
                                               orDefault(ttl, cache.defaultTTL),
                                               cache.now),
                    !.written[key] = Some([value |-> value, ttl |-> ttl,
                                           at |-> cache.now]),
                    !.last = [op |-> "set", key |-> key, result |-> None]]
    /\ UNCHANGED <<hookVars, pureVars, chat>>

\* CacheService.delete(key)
CacheDelete(key) ==
    /\ cache' = [cache EXCEPT !.store = [k \in DOMAIN cache.store \ {getKey(key)} |->
                                            cache.store[k]],
                              !.written[key] = None,
                              !.last = [op |-> "delete", key |-> key,
                                        result |-> None]]
    /\ UNCHANGED <<hookVars, pureVars, chat>>

\* CacheService.clear()
CacheClear ==
    /\ cache' = [cache EXCEPT !.store = <<>>,
                              !.written = [k \in CacheKeys |-> None],
                              !.last = [op |-> "clear", key |-> "",
                                        result |-> None]]
    /\ UNCHANGED <<hookVars, pureVars, chat>>

\* Date.now() moves on by half a second or a second.
Tick ==
    /\ cache.ticks < MaxTicks
    /\ \E ms \in {500, 1000} :
         cache' = [cache EXCEPT !.now = cache.now + ms,
                                !.ticks = cache.ticks + 1,
                                !.last = [op |-> "tick", key |-> "",
                                          result |-> None]]
    /\ UNCHANGED <<hookVars, pureVars, chat>>

NextCache ==
    \/ \E key \in CacheKeys : CacheGet(key)
    \/ \E key \in CacheKeys, value \in CacheValues, ttl \in TTLs :
            CacheSet(key, value, ttl)
    \/ \E key \in CacheKeys : CacheDelete(key)
    \/ CacheClear
    \/ Tick

SpecCache == InitCache /\ [][NextCache]_vars

\* The TTL of a set call in seconds: the given ttl, or the default TTL when
\* ttl is omitted or 0.
ttlOf(call) ==
    IF call.ttl = None \/ call.ttl = Some(0) THEN cache.defaultTTL ELSE call.ttl[1]

\* The most recent set(key) was not deleted or cleared since and its TTL
\* has not run out: Date.now() is not past the time of the set plus the TTL.
live(key) ==
    /\ cache.written[key] # None
    /\ cache.now <= cache.written[key][1].at + 1000 * ttlOf(cache.written[key][1])

\* C29: for a memory-backed CacheService, after any sequence of set, get,
\* delete and clear calls and clock advances, get(key) returns the value of
\* the most recent set(key) if that entry was not deleted or cleared and
\* its TTL (the given ttl, or the default TTL when ttl is omitted or 0) has
\* not elapsed, and null otherwise; an entry found expired on access is
\* removed from the store.
C29_GetReturnsLiveValue ==
    cache.last.op = "get" =>
        LET key == cache.last.key
        IN  IF live(key)
            THEN cache.last.result = Some(cache.written[key][1].value)
            ELSE /\ cache.last.result = None
                 /\ getKey(key) \notin DOMAIN cache.store

\* A get found the entry of an earlier set expired: it returned null and
\* the entry is gone.
C29_Witness ==
    /\ cache.last.op = "get"
    /\ cache.written[cache.last.key] # None
    /\ ~live(cache.last.key)
    /\ cache.last.result = None
    /\ getKey(cache.last.key) \notin DOMAIN cache.store

(***************************************************************************)
(* CacheService.getOrSet                                                   *)
(***************************************************************************)

\* getOrSet(key, factory, ttl) up to its first await: this.get(key) has
\* looked the key up, and the call waits for the result.
GetOrSet(key, ttl) ==
    /\ cache.started < MaxGetOrSet
    /\ LET r == MemoryStorageGet(cache.store, getKey(key), cache.now)
       IN  cache' = [cache EXCEPT
                        !.store = r.store,
                        !.started = cache.started + 1,
                        !.pending = cache.pending \cup
                            {[id |-> cache.started + 1, key |-> key, ttl |-> ttl,
                              pc |-> "get", cached |-> r.value]},
                        !.last = [op |-> "getOrSet", key |-> key, result |-> None]]
    /\ UNCHANGED <<hookVars, pureVars, chat>>

\* The continuations of getOrSet's awaits: with the result of get, return
\* it if it is not null and call the factory otherwise; with the factory's
\* value, this.set(key, value, ttl); with set resolved, return the value.
AfterGetOrSetAwait(c) ==
    /\ c \in cache.pending
    /\ IF c.pc = "get"
       THEN IF c.cached # None
            THEN cache' = [cache EXCEPT
                             !.pending = cache.pending \ {c},
                             !.last = [op |-> "returned", key |-> c.key,
                                       result |-> c.cached]]
            ELSE cache' = [cache EXCEPT
                             !.pending = (cache.pending \ {c})
                                            \cup {[c EXCEPT !.pc = "factory"]},
                             !.invocations = cache.invocations \cup
                                 {[id |-> c.id, key |-> c.key, ttl |-> c.ttl,
                                   at |-> cache.now]},
                             !.last = [op |-> "factory", key |-> c.key,
                                       result |-> None]]
       ELSE IF c.pc = "factory"
       THEN \E value \in CacheValues :
              cache' = [cache EXCEPT
                          !.store = MemoryStorageSet(cache.store, getKey(c.key), value,
                                                     orDefault(c.ttl, cache.defaultTTL),
                                                     cache.now),
                          !.written[c.key] = Some([value |-> value, ttl |-> c.ttl,
                                                   at |-> cache.now]),
                          !.pending = (cache.pending \ {c})
                                         \cup {[c EXCEPT !.pc = "set",
                                                         !.cached = Some(value)]},
                          !.last = [op |-> "set", key |-> c.key, result |-> None]]
       ELSE cache' = [cache EXCEPT
                        !.pending = cache.pending \ {c},
                        !.last = [op |-> "returned", key |-> c.key,
                                  result |-> c.cached]]
    /\ UNCHANGED <<hookVars, pureVars, chat>>

NextGetOrSet ==
    \/ \E key \in CacheKeys, ttl \in TTLs : GetOrSet(key, ttl)
    \/ \E c \in cache.pending : AfterGetOrSetAwait(c)
    \/ Tick

SpecGetOrSet == InitCache /\ [][NextGetOrSet]_vars

\* C30: for any interleaving of getOrSet calls on the same key within one
\* TTL window the factory is invoked at most once: of two invocations for
\* the same key the later one comes after the TTL of the earlier one has
\* run out (the entry of the earlier call is set no sooner than its factory
\* was invoked).
C30_FactoryAtMostOnce ==
    \A i, j \in cache.invocations :
        (i.key = j.key /\ i.id # j.id /\ i.at <= j.at)
            => j.at > i.at + 1000 * ttlOf(i)
====
